---- MODULE Spec2Model ----
(***************************************************************************)
(* vite-plugin-caddy-multiple-tls: the route lifecycle manager.            *)
(*                                                                         *)
(* One plugin instance (src/unnamed/part_005, second version of index.ts,  *)
(* lines 325-991) drives the Caddy admin API through the helpers of        *)
(* utils.ts (src/unnamed/part_004, lines 1-742).  The daemon is external:  *)
(* its configuration tree is modelled by what the helpers read and write   *)
(* (the http server scaffold, the route list, the TLS automation policy    *)
(* list), and every request may also be answered with a fault.             *)
(*                                                                         *)
(* Hostnames, working directories and project roots are represented by     *)
(* natural numbers: a hostname by its rank in code-unit order (the order   *)
(* Array.prototype.sort uses), 0 being the empty string.  A raw name of    *)
(* the `domain` option is a hostname together with how it is spelled.      *)
(***************************************************************************)
EXTENDS Integers, Sequences, FiniteSets, TLC

\* ------------------------------------------------------------------ bounds

\* Hostnames and raw domain lists of the identity harness (SpecIdentity).
IdNumHosts == 2
IdMaxLen == 2
\* Processes started one after the other with the same options (a crash or a
\* restart in between) in the lifecycle specification.
MaxRuns == 2

\* ------------------------------------------------------- program constants

\* removeWithRetry(remover, label, maxAttempts = 3)
MaxAttempts == 3
\* removeWithRetry: let delayMs = 100
InitialDelayMs == 100
\* startCaddy: for (let i = 0; i < 10; i++)
StartProbes == 10
\* withApiLock: const timeoutMs = 5000; await sleep(50)
LockTimeoutMs == 5000
LockPollMs == 50
\* .digest('hex').slice(0, 12)
KeyHexLen == 12

\* --------------------------------------------------------- pure functions

RECURSIVE InsertSorted(_, _)
InsertSorted(x, s) ==
  IF s = <<>> THEN <<x>>
  ELSE IF x <= Head(s) THEN <<x>> \o s
  ELSE <<Head(s)>> \o InsertSorted(x, Tail(s))

\* [...domains].sort()
RECURSIVE SortedCopy(_)
SortedCopy(s) == IF s = <<>> THEN <<>> ELSE InsertSorted(Head(s), SortedCopy(Tail(s)))

Range(s) == {s[i] : i \in 1..Len(s)}

\* A raw name of the options: the hostname it spells, written in lower case
\* or with upper-case letters and blanks around it.
Spellings == {"lower", " Upper "}

Raw(host) == [host |-> host, spelling |-> "lower"]

Padded(host) == [host |-> host, spelling |-> " Upper "]

\* normalizeDomain: trim().toLowerCase(), null (0) when nothing is left.
normalizeDomain(d) == d.host

\* Array.from(new Set(list)): first occurrences, in order.
RECURSIVE DedupKeepFirst(_, _)
DedupKeepFirst(s, seen) ==
  IF s = <<>> THEN <<>>
  ELSE IF Head(s) \in seen THEN DedupKeepFirst(Tail(s), seen)
  ELSE <<Head(s)>> \o DedupKeepFirst(Tail(s), seen \cup {Head(s)})

\* normalizeDomains: map(normalizeDomain), filter(Boolean), null (<<>>) when
\* nothing is left, else the list without duplicates.
normalizeDomains(domains) ==
  DedupKeepFirst(SelectSeq([i \in 1..Len(domains) |-> normalizeDomain(domains[i])],
                           LAMBDA d : d # 0), {})

\* The `domain` option: not given, or a list of raw names (a string is a list
\* of one).
NoDomainOption == [given |-> FALSE, names |-> <<>>]

DomainOption(names) == [given |-> TRUE, names |-> names]

\* resolveDomains: options.domain when it is given, else the derived
\* <repo>.<branch>.<baseDomain> name; derived is 0 when buildDerivedDomain
\* returns null.  The result is <<>> for null.
resolveDomains(domain, derived) ==
  IF domain.given THEN normalizeDomains(domain.names)
  ELSE IF derived = 0 THEN <<>> ELSE <<derived>>

\* JSON.stringify({ domains: [...domains].sort(), cwd, root: configRoot ?? null })
\* as the sequence of its fields; an undefined root (0) serialises as null (0).
KeyMaterialUnsorted(domains, cwd, root) == <<Len(domains)>> \o domains \o <<cwd, root>>

KeyMaterial(domains, cwd, root) == <<Len(domains)>> \o SortedCopy(domains) \o <<cwd, root>>

RECURSIVE Absorb(_, _, _)
Absorb(m, j, h) ==
  IF j > Len(m) THEN h ELSE Absorb(m, j + 1, (h * 131 + m[j] + 1) % 1000003)

Pow16(k) == CASE k = 0 -> 1 [] k = 1 -> 16 [] k = 2 -> 256 [] k = 3 -> 4096 [] OTHER -> 65536

\* createHash('sha1').update(keyMaterial).digest('hex').slice(0, 12): a
\* deterministic digest of the serialised key material, cut to 12 hex digits.
Sha1Hex12(m) ==
  LET h == Absorb(m, 1, 7)
  IN [i \in 1..KeyHexLen |-> ((h * i) \div Pow16((i - 1) % 5)) % 16]

getInstanceKeyNoSort(domains, cwd, root) == Sha1Hex12(KeyMaterialUnsorted(domains, cwd, root))

getInstanceKey(domains, cwd, root) == Sha1Hex12(KeyMaterial(domains, cwd, root))

\* `vite-proxy-${getInstanceKey(domainArray, config.root)}`
RouteIdOf(domains, cwd, root) ==
  [prefix |-> "vite-proxy-", key |-> getInstanceKey(domains, cwd, root), suffix |-> ""]

\* internalTls ?? (baseDomain !== undefined || loopbackDomain !== undefined ||
\* domain !== undefined)
shouldUseInternalTlsMutant(internalTls, baseSet, domain) ==
  IF internalTls # "unset" THEN internalTls = "true"
  ELSE domain.given

shouldUseInternalTls(internalTls, baseSet, domain) ==
  IF internalTls # "unset" THEN internalTls = "true"
  ELSE baseSet \/ domain.given

\* shouldUseInternalTls ? `${routeId}-tls` : null
NullId == [prefix |-> "", key |-> <<>>, suffix |-> "null"]

TlsPolicyIdOf(id, useTls) == IF useTls THEN [id EXCEPT !.suffix = "-tls"] ELSE NullId


\* ------------------------------------------------------------------ state

VARIABLES
  fx,             \* harness of the pure functions: inputs and results
  opts,           \* the plugin options and the server Vite hands to the hook
  run,            \* which process this is (1 = first start)
  alive,          \* the process is running
  httpServer,     \* "none" | "idle" | "listening" | "closed"
  listenDone,     \* the wrapped server.listen() has resolved
  pc,             \* position of setupServer / setupRoute
  setupStarted,   \* let setupStarted
  cleanupStarted, \* let cleanupStarted
  tlsPolicyAdded, \* let tlsPolicyAdded
  listeners,      \* handlers registered by this instance (server and process)
  holdsLock,      \* withApiLock: this call created the marker (handle is open)
  polls,          \* withApiLock: sleep(50) calls so far
  probeI,         \* startCaddy: i
  snap,           \* ensureBaseConfig: hasApps, hasHttp, hasServers
  sweepTodo,      \* cleanupStaleRoutesForDomains: rest of the parsed route list
  td,             \* position of cleanupRoute
  attempt,        \* removeWithRetry: attempt
  delayMs,        \* removeWithRetry: delayMs
  pendingKill,    \* signal whose .finally(process.kill) waits for cleanupRoute
  cfgLevel,       \* daemon: how much of apps/http/servers/<name> exists
  tlsLevel,       \* daemon: how much of apps/tls/automation/policies exists
  routes,         \* daemon: the route list of the server
  policies,       \* daemon: the TLS automation policy list
  lockFile,       \* the lock marker: "none" | "self" | "other"
  faultsOn,       \* the environment may answer requests with faults
  sib,            \* a second plugin instance on the same daemon: kind and position
  target,         \* setupServer's resolvedPort, resolvedHost; setupRoute's port, upstreamHost
  obs             \* what an observer of the instance has seen (history)

envVars == <<fx, opts, faultsOn, sib>>
srvVars == <<httpServer, listenDone, target>>
setupVars == <<pc, setupStarted, tlsPolicyAdded, holdsLock, polls, probeI, snap, sweepTodo>>
tdVars == <<td, attempt, delayMs, pendingKill>>
daemonVars == <<cfgLevel, tlsLevel, routes, policies>>
vars == <<fx, opts, run, alive, httpServer, listenDone, pc, setupStarted, cleanupStarted,
          tlsPolicyAdded, listeners, holdsLock, polls, probeI, snap, sweepTodo, td, attempt,
          delayMs, pendingKill, cfgLevel, tlsLevel, routes, policies, lockFile, faultsOn, sib,
          target, obs>>

\* ------------------------------------------------- the instance's identity

\* The port the instance's server is bound to (getServerPort), and that of a
\* second instance's server.
FirstPort == 4007
SecondPort == 4008

\* A URL-valued option as the user wrote it: not given, or a string made of an
\* origin (scheme://host:port, "" when the string has none), what follows it,
\* and possibly spaces around it.  A normalised URL is an origin and a tail;
\* NoUrl stands for null / undefined.
UrlNotGiven == [given |-> FALSE, pad |-> FALSE, origin |-> "", tail |-> ""]

UrlGiven(origin, tail, pad) == [given |-> TRUE, pad |-> pad, origin |-> origin, tail |-> tail]

NoUrl == [origin |-> "", tail |-> ""]

\* export const DEFAULT_CADDY_API_URL = 'http://localhost:2019'
DefaultCaddyApiUrl == [origin |-> "http://localhost:2019", tail |-> ""]

\* url.trim(); null when empty; trailing slashes removed.
normalizeCaddyApiUrl(url) ==
  IF url.origin = "" /\ url.tail = "" THEN NoUrl
  ELSE [origin |-> url.origin, tail |-> IF url.tail = "/" THEN "" ELSE url.tail]

\* new URL(text).origin; NoUrl when the constructor throws.
UrlOrigin(u) == IF u.origin = "" THEN NoUrl ELSE [origin |-> u.origin, tail |-> ""]

\* origin.trim(); null when empty or not a URL; else new URL(trimmed).origin
normalizeCaddyAdminOrigin(origin) == UrlOrigin([origin |-> origin.origin, tail |-> origin.tail])

\* const pluginCaddyApiUrl = normalizedApiUrl ?? DEFAULT_CADDY_API_URL
pluginCaddyApiUrl ==
  LET normalizedApiUrl == IF opts.caddyApiUrl.given /\ opts.caddyApiUrl # UrlGiven("", "", FALSE)
                          THEN normalizeCaddyApiUrl(opts.caddyApiUrl) ELSE NoUrl
  IN IF normalizedApiUrl = NoUrl THEN DefaultCaddyApiUrl ELSE normalizedApiUrl

\* const pluginCaddyAdminOrigin = normalizedAdminOrigin ?? pluginCaddyApiUrl
pluginCaddyAdminOrigin ==
  LET normalizedAdminOrigin ==
        IF opts.caddyAdminOrigin.given /\ opts.caddyAdminOrigin # UrlGiven("", "", FALSE)
        THEN normalizeCaddyAdminOrigin(opts.caddyAdminOrigin) ELSE NoUrl
  IN IF normalizedAdminOrigin = NoUrl THEN pluginCaddyApiUrl ELSE normalizedAdminOrigin

\* getApiUrl: apiUrl ?? DEFAULT_CADDY_API_URL
getApiUrlMutant(apiUrl) == DefaultCaddyApiUrl

getApiUrl(apiUrl) == IF apiUrl = NoUrl THEN DefaultCaddyApiUrl ELSE apiUrl

\* getAdminOrigin: the origin of adminOrigin ?? getApiUrl(apiUrl), or of the
\* API URL when that does not parse.
getAdminOrigin(apiUrl, adminOrigin) ==
  LET originSource == IF adminOrigin = NoUrl THEN getApiUrl(apiUrl) ELSE adminOrigin
  IN IF UrlOrigin(originSource) # NoUrl THEN UrlOrigin(originSource)
     ELSE UrlOrigin(getApiUrl(apiUrl))

\* caddyFetch as every function of utils calls it: the URL starts with
\* getApiUrl(apiUrl), the Origin header is getAdminOrigin(apiUrl, adminOrigin),
\* with the apiUrl and adminOrigin that index.ts passes to every call.
RequestTarget ==
  [url |-> getApiUrl(pluginCaddyApiUrl),
   origin |-> getAdminOrigin(pluginCaddyApiUrl, pluginCaddyAdminOrigin)]

\* const domainArray = resolvedDomains ?? []
domainArray == resolveDomains(opts.domain, opts.derived)

\* const routeId = `vite-proxy-${getInstanceKey(domainArray, config.root)}`
routeId == RouteIdOf(domainArray, opts.cwd, opts.root)

\* const tlsPolicyId = shouldUseInternalTls ? `${routeId}-tls` : null
tlsPolicyId ==
  TlsPolicyIdOf(routeId, shouldUseInternalTls(opts.internalTls, opts.baseSet, opts.domain))

\* ------------------------------------------------------ the daemon's side

\* How a request can be answered: by the daemon from its configuration
\* ("nominal"), with an internal error, with the origin-policy rejection, or
\* not at all (fetch rejects, with a connectivity error code or another error).
Responses == {"nominal", "http500", "origin403", "econnrefused", "otherThrow"}

\* The answers the environment of this behaviour gives.
Answers == IF faultsOn THEN Responses ELSE {"nominal"}

Rejected(r) == r \in {"econnrefused", "otherThrow"}

\* cfgLevel: 0 empty config, 1 no apps, 2 apps without http, 3 http without
\* servers, 4 servers without the named server, 5 the server exists.
ServerLevel == 5
\* tlsLevel: 0 no tls app, 1 tls app without automation, 2 the policy list exists.
PoliciesLevel == 2

HasId(list, id) == \E i \in 1..Len(list) : list[i].id = id

CountId(list, id) == Cardinality({i \in 1..Len(list) : list[i].id = id})

\* DELETE /id/<id>: the object with that @id is removed from its list.
RemoveIdMutant(list, id) == <<>>

RECURSIVE RemoveId(_, _)
RemoveId(list, id) ==
  IF list = <<>> THEN <<>>
  ELSE IF Head(list).id = id THEN Tail(list)
  ELSE <<Head(list)>> \o RemoveId(Tail(list), id)

\* The daemon refuses a policy whose subjects another policy already claims
\* ("cannot apply more than one automation policy to host").
Overlaps(list, subjects) == \E i \in 1..Len(list) : list[i].subjects \cap subjects # {}

\* Entries other processes may have left in the daemon before this one starts:
\* the route and the TLS policy of an instance of this plugin started for the
\* same hostname in another directory, and a route that is not the plugin's.
StaleRoute ==
  [id |-> [prefix |-> "vite-proxy-", key |-> getInstanceKey(<<1>>, 9, 0), suffix |-> ""],
   hosts |-> {1}, dial |-> "127.0.0.1", upstream |-> 0]

ForeignRoute ==
  [id |-> [prefix |-> "other-", key |-> <<>>, suffix |-> ""], hosts |-> {1},
   dial |-> "127.0.0.1", upstream |-> 0]

StalePolicy == [id |-> [StaleRoute.id EXCEPT !.suffix = "-tls"], subjects |-> {1}]


\* -------------------------------------------------------------- observer

InitObs ==
  [api |-> FALSE,          \* an admin API request was issued
   launched |-> FALSE,     \* `caddy start` was executed
   launchFailed |-> FALSE, \* and execSync threw, while ensureCaddyReady is the
                           \*   call in progress
   log |-> {},             \* console.error messages that end an operation, by kind
   firstProbe |-> "none",  \* status of the first readiness probe
   lastProbe |-> "none",   \* status of the latest readiness probe
   originProbe |-> FALSE,  \* a readiness probe was answered with an origin rejection
   originDelete |-> "none",  \* the latest teardown delete was answered with an origin
                           \*   rejection ("rejected"), and was then issued "again"
   reachable |-> FALSE,    \* a re-probe after the launch was answered ok
   serverRead |-> "none",  \* how the read of the server was answered, while
                           \*   ensureCaddyReady is the call in progress
   conflicts |-> 0,        \* creation steps answered 409, likewise
   cause |-> "",           \* why ensureCaddyReady threw
   overlap |-> FALSE,      \* the daemon refused the policy create as overlapping
   rollback |-> "none",    \* how the daemon answered the rollback delete
   listRead |-> "none",    \* how GET .../routes of the sweep was answered, until the
                           \*   delete of the own route is answered
   swept |-> 0,            \* sweep deletes answered ok, for the same while
   removerLogged |-> FALSE,  \* the latest removeRoute / removeTlsPolicy call wrote
                           \*   its own console.error
   tdStarts |-> 0,         \* times the delete sequence was started
   triggers |-> 0,         \* teardown triggers handled (close, signals)
   calls |-> [tls |-> 0, route |-> 0],         \* remover invocations
   okd |-> [tls |-> FALSE, route |-> FALSE],   \* the remover returned true
   reraised |-> "none",    \* process.kill(process.pid, signal)
   tdAtReraise |-> "idle", \* where cleanupRoute was at that moment
   unhandled |-> FALSE,    \* a promise nobody awaits was rejected
   sentTo |-> {},          \* where requests went: base URL and Origin header
   sibAtStart |-> "off",   \* where the second instance was when cleanupRoute started
   firstCfg |-> <<>>]      \* the first run to become Active, its routes and policies

ObsApi(o, r) == [o EXCEPT !.api = TRUE, !.sentTo = @ \cup {RequestTarget}]

ObsLog(o, msg) == [o EXCEPT !.log = @ \cup {msg}]

\* ------------------------------------------------------------------- Init

IdleFx == [phase |-> "off"]

\* ------------------------------------------------- the upstream target

\* let resolvedPort: number | null = null
NoPort == 0

\* let resolvedHost: string | null = null
NoHost == "#null"

\* config.server.port || 5173
DefaultPort == 5173

\* getPreviewPort(config) ?? 4173
DefaultPreviewPort == 4173

\* A host option (config.server.host, config.preview.host): a string, written
\* as its text without the white space around it and whether there is any, or
\* a value that is not a string (undefined, true, false), or no key at all.
HostString(core, pad) == [str |-> TRUE, core |-> core, pad |-> pad]

HostOther(v) == [str |-> FALSE, core |-> v, pad |-> FALSE]

HostAbsent == HostOther("#absent")

\* String.prototype.trim
trim(host) == host.core

\* server.resolvedUrls?.local?.[0], parsed by new URL(): hostname and port.
NoLocalUrl == [hostname |-> "", port |-> NoPort]

\* httpServer.address() of a server that is not listening.
NoAddress == [address |-> "", port |-> NoPort]

\* What the plugin reads of the server: config.server.port and .host,
\* config.isProduction, config.preview.port and .host, the address the http
\* server is bound to once it listens, and the local URL Vite resolves.
DefaultNet ==
  [port |-> FirstPort, host |-> HostOther("undefined"), previewMode |-> FALSE,
   previewPort |-> NoPort, previewHost |-> HostAbsent,
   bound |-> FirstPort, address |-> "127.0.0.1", url |-> NoLocalUrl]

\* resolveUpstreamHost, without its test for the wildcard addresses
resolveUpstreamHostMutant(host) ==
  IF host.str /\ trim(host) # "" THEN trim(host) ELSE "127.0.0.1"

resolveUpstreamHost(host) ==
  IF host.str /\ trim(host) # "" /\ trim(host) # "0.0.0.0" /\ trim(host) # "::"
  THEN trim(host)
  ELSE "127.0.0.1"

\* getPreviewPort: config.preview.port when it is a number, else null
getPreviewPort(net) == net.previewPort

\* getPreviewHost: resolveUpstreamHost(config.preview.host) when config.preview
\* has the key, else null
getPreviewHost(net) ==
  IF net.previewHost # HostAbsent THEN resolveUpstreamHost(net.previewHost) ELSE NoHost

\* const fallbackPort = previewMode ? getPreviewPort(config) ?? 4173
\*                                  : config.server.port || 5173
fallbackPort(net) ==
  IF net.previewMode
  THEN (IF getPreviewPort(net) # NoPort THEN getPreviewPort(net) ELSE DefaultPreviewPort)
  ELSE (IF net.port # NoPort THEN net.port ELSE DefaultPort)

\* getPortFromAddress, never finding a port
getPortFromAddressMutant(address) == NoPort

\* getPortFromAddress: the port of the address when it is a number
getPortFromAddress(address) == address.port

\* updateResolvedTarget: what resolvedPort and resolvedHost of `t` become,
\* `address` being httpServer.address() and `url` the resolved local URL.
updateResolvedTarget(t, net, address, url) ==
  IF t.resolvedPort # NoPort /\ t.resolvedHost # NoHost THEN t
  ELSE
    LET h1 == IF url # NoLocalUrl /\ t.resolvedHost = NoHost /\ url.hostname # ""
              THEN (IF url.hostname = "localhost" THEN "127.0.0.1" ELSE url.hostname)
              ELSE t.resolvedHost
        p1 == IF url # NoLocalUrl /\ t.resolvedPort = NoPort THEN url.port
              ELSE t.resolvedPort
        p2 == IF address # NoAddress /\ p1 = NoPort /\ getPortFromAddress(address) # NoPort
              THEN getPortFromAddress(address) ELSE p1
        h2 == IF address # NoAddress /\ h1 = NoHost
                 /\ address.address # "0.0.0.0" /\ address.address # "::"
              THEN address.address ELSE h1
        p3 == IF p2 = NoPort /\ net.port # NoPort THEN net.port ELSE p2
        p4 == IF net.previewMode /\ p3 = NoPort /\ getPreviewPort(net) # NoPort
              THEN getPreviewPort(net) ELSE p3
        h3 == IF h2 = NoHost /\ net.previewMode THEN getPreviewHost(net) ELSE h2
        h4 == IF h3 = NoHost THEN resolveUpstreamHost(net.host) ELSE h3
    IN [t EXCEPT !.resolvedPort = p4, !.resolvedHost = h4]

\* getServerPort: updateResolvedTarget(); return resolvedPort ?? fallbackPort
getServerPort(t, net) == IF t.resolvedPort # NoPort THEN t.resolvedPort ELSE fallbackPort(net)

\* getUpstreamHost: updateResolvedTarget(); return resolvedHost ?? '127.0.0.1'
getUpstreamHost(t) == IF t.resolvedHost # NoHost THEN t.resolvedHost ELSE "127.0.0.1"

\* Nothing resolved, nothing read by setupRoute.
NoTarget ==
  [resolvedPort |-> NoPort, resolvedHost |-> NoHost, port |-> NoPort, upstreamHost |-> NoHost]

\* The server of `vite dev`: an http server that is yet to listen, and listen().
DevServer == [http |-> "idle", hasListen |-> TRUE, net |-> DefaultNet]

\* { httpServer, config } of the server handed to configureServer /
\* configurePreviewServer, and whether the server has a listen() method.
Servers ==
  { DevServer,
    [http |-> "idle", hasListen |-> FALSE, net |-> DefaultNet],
    [http |-> "listening", hasListen |-> FALSE, net |-> DefaultNet],
    [http |-> "none", hasListen |-> TRUE, net |-> DefaultNet],
    [http |-> "none", hasListen |-> FALSE, net |-> DefaultNet] }

\* Plugin options: domain (not given, or raw names), the derived name (0 when
\* repo/branch give none), internalTls, whether baseDomain/loopbackDomain is set.
Options(d, g, t, s) ==
  [domain |-> d, derived |-> g, internalTls |-> t, baseSet |-> FALSE, cwd |-> 1, root |-> 1,
   server |-> s, caddyApiUrl |-> UrlNotGiven, caddyAdminOrigin |-> UrlNotGiven]

\* No second instance.
NoSibling == [kind |-> "none", pc |-> "off"]

OptionSets ==
  { Options(d, 0, t, s) :
      d \in {DomainOption(<<Padded(0)>>), DomainOption(<<Padded(1)>>),
             DomainOption(<<Raw(2), Raw(1), Padded(2)>>)},
      t \in {"unset", "false"}, s \in Servers }
  \cup { Options(NoDomainOption, g, "unset", s) : g \in {0, 1}, s \in Servers }

\* What the daemon may hold when the first process starts.
DaemonInits ==
  { [cfg |-> c, tls |-> t, routes |-> r, policies |-> p] :
      c \in 0..ServerLevel, t \in 0..PoliciesLevel,
      r \in {<<>>, <<ForeignRoute, StaleRoute>>},
      p \in {<<>>, <<StalePolicy>>} }

DaemonInitOk(d) ==
  /\ d.routes # <<>> => d.cfg = ServerLevel
  /\ d.policies # <<>> => d.tls = PoliciesLevel
  /\ d.tls > 0 => d.cfg = ServerLevel

\* let hasApps = false; let hasHttp = false; let hasServers = false
NoSnapshot == [hasApps |-> FALSE, hasHttp |-> FALSE, hasServers |-> FALSE]

InstanceInit ==
  /\ run = 1
  /\ alive = TRUE
  /\ httpServer = opts.server.http
  /\ listenDone = FALSE
  /\ pc = "new"
  /\ setupStarted = FALSE
  /\ cleanupStarted = FALSE
  /\ tlsPolicyAdded = FALSE
  /\ listeners = {}
  /\ holdsLock = FALSE
  /\ polls = 0
  /\ probeI = 0
  /\ snap = NoSnapshot
  /\ sweepTodo = <<>>
  /\ td = "idle"
  /\ attempt = 0
  /\ delayMs = InitialDelayMs
  /\ pendingKill = "none"
  /\ target = NoTarget
  /\ obs = InitObs

Init ==
  /\ fx = IdleFx
  /\ opts \in OptionSets
  /\ \E d \in {x \in DaemonInits : DaemonInitOk(x)} :
       /\ cfgLevel = d.cfg
       /\ tlsLevel = d.tls
       /\ routes = d.routes
       /\ policies = d.policies
  /\ lockFile = "none"
  /\ faultsOn = TRUE
  /\ sib = NoSibling
  /\ InstanceInit


\* ------------------------------------------------ responses and their use

\* The HTTP status of an answered request: the daemon's own (nominal), or the
\* injected one.
StatusOf(r, nominalStatus) ==
  CASE r = "nominal" -> nominalStatus
    [] r = "http500" -> 500
    [] r = "origin403" -> 403
    [] OTHER -> 0

IsOk(status) == status >= 200 /\ status <= 299

\* isOriginPolicyError: status 403 and a body naming the origin as not allowed.
isOriginPolicyError(r, status) == status = 403 /\ r = "origin403"

\* const CONNECTIVITY_ERROR_CODES = new Set([...])
CONNECTIVITY_ERROR_CODES ==
  {"ECONNREFUSED", "ECONNRESET", "EHOSTUNREACH", "ENETUNREACH", "ENOTFOUND", "ETIMEDOUT",
   "UND_ERR_CONNECT_TIMEOUT", "UND_ERR_HEADERS_TIMEOUT", "UND_ERR_SOCKET"}

\* The `code` property of an error or of its cause: a string (the listed
\* ones, one that is not listed, the empty string), a value that is not a
\* string (the numeric code of a DOMException), or no such property.
CodeValues == CONNECTIVITY_ERROR_CODES \cup {"EPIPE", "", "#number", "#absent"}

\* The body of an answer, by what isOriginPolicyError looks for in it: the
\* words "origin" and "not allowed", written in lower case or not.
Bodies ==
  [origin : BOOLEAN, notAllowed : BOOLEAN, upper : BOOLEAN]

\* text.toLowerCase(), and includes() on the result.
toLowerCase(text) == [text EXCEPT !.upper = FALSE]

includes(text, word) == ~text.upper /\ text[word]

\* isOriginPolicyError(status, text)
isOriginPolicyErrorText(status, text) ==
  /\ status = 403
  /\ includes(toLowerCase(text), "origin") /\ includes(toLowerCase(text), "notAllowed")

\* buildCaddyRequestError: the fixed origin-policy message, or the message of
\* the operation with the status or the body.
buildCaddyRequestError(status, text) ==
  IF isOriginPolicyErrorText(status, text) THEN "CADDY_ADMIN_ORIGIN_POLICY_ERROR_MESSAGE"
  ELSE "Failed to read Caddy config"

\* getErrorCode: the error's own code when it is a string, else the code of
\* its cause when that is a string, else undefined ("#absent").
getErrorCodeMutant(e) == IF e.code \notin {"#number", "#absent"} THEN e.code ELSE "#absent"

getErrorCode(e) ==
  IF e.code \notin {"#number", "#absent"} THEN e.code
  ELSE IF e.causeCode \notin {"#number", "#absent"} THEN e.causeCode
  ELSE "#absent"

\* isConnectivityError: Boolean(code) && CONNECTIVITY_ERROR_CODES.has(code)
isConnectivityError(e) ==
  LET code == getErrorCode(e)
  IN code \notin {"", "#absent"} /\ code \in CONNECTIVITY_ERROR_CODES

\* What `await caddyFetch(...)` and `await res.text()` come to: an answer with
\* a status and a body, or a thrown error with its code and its cause's code.
Answered(status, text) ==
  [thrown |-> FALSE, status |-> status, text |-> text, code |-> "#absent",
   causeCode |-> "#absent"]

Thrown(code, causeCode) ==
  [thrown |-> TRUE, status |-> 0, text |-> [origin |-> FALSE, notAllowed |-> FALSE,
                                           upper |-> FALSE],
   code |-> code, causeCode |-> causeCode]

\* checkCaddyAdminStatus on one outcome: { status, error } with the message
\* of the error it built ("" for none, "thrown" for the error that was caught).
CaddyAdminStatusOf(o) ==
  IF ~o.thrown
  THEN IF IsOk(o.status) THEN [status |-> "running", error |-> ""]
       ELSE [status |-> "api-error", error |-> buildCaddyRequestError(o.status, o.text)]
  ELSE IF isConnectivityError(o)
  THEN [status |-> "connectivity-error", error |-> "thrown"]
  ELSE [status |-> "api-error", error |-> "thrown"]

\* The outcome behind each kind of answer of the environment: fetch of Node
\* rejects with a TypeError whose cause carries the code.
OutcomeOf(r) ==
  CASE r = "nominal" -> Answered(200, [origin |-> FALSE, notAllowed |-> FALSE, upper |-> FALSE])
    [] r = "http500" -> Answered(500, [origin |-> FALSE, notAllowed |-> FALSE, upper |-> FALSE])
    [] r = "origin403" -> Answered(403, [origin |-> TRUE, notAllowed |-> TRUE, upper |-> TRUE])
    [] r = "econnrefused" -> Thrown("#absent", "ECONNREFUSED")
    [] OTHER -> Thrown("#absent", "#absent")

\* checkCaddyAdminStatus: 'running' when res.ok, 'connectivity-error' when the
\* request failed with a connectivity error code, 'api-error' otherwise.
checkCaddyAdminStatus(r) == CaddyAdminStatusOf(OutcomeOf(r)).status

\* startCaddy, inside the loop: if (status.status === 'running') return true
startCaddySeesRunningMutant(status) == FALSE

startCaddySeesRunning(status) == status = "running"

\* removeRoute / removeTlsPolicy: false when !res.ok && res.status !== 404
removeReturnsMutant(status) == IsOk(status)

removeReturns(status) == IsOk(status) \/ status = 404

\* removeRoute / removeTlsPolicy: console.error(error.message) on that branch
removerLogs(status) == ~IsOk(status) /\ status # 404

\* A remover call was answered with `status`.
ObsRemover(o, status) == [o EXCEPT !.removerLogged = removerLogs(status)]

\* DELETE /id/<id> answered by the daemon: 200 when the object exists, else 404.
DeleteStatus(list, id) == IF HasId(list, id) THEN 200 ELSE 404

\* ------------------------------------------------------------ setupServer

\* if (domainArray.length === 0) { console.error(...); return; }
NoDomainResolvedMutant == FALSE

NoDomainResolved == Len(domainArray) = 0

\* runSetupOnce, and setupRoute up to its first await: validateCaddyIsInstalled
\* (execSync('caddy version')), then ensureCaddyReady -> withApiLock -> open().
\* runSetupOnce without `if (setupStarted) return`
RunSetupOnceMutant(o) ==
  /\ setupStarted' = TRUE
  /\ \E installed \in BOOLEAN :
       IF installed
       THEN pc' = "lock" /\ obs' = o
       ELSE pc' = "failed" /\ obs' = ObsLog(o, "notInstalled")

RunSetupOnce(o) ==
  IF setupStarted
  THEN /\ UNCHANGED <<pc, setupStarted>>
       /\ obs' = o
  ELSE /\ setupStarted' = TRUE
       /\ \E installed \in BOOLEAN :
            IF installed
            THEN pc' = "lock" /\ obs' = o
            ELSE pc' = "failed" /\ obs' = ObsLog(o, "notInstalled")

\* setupServer: if (httpServer?.listening), taken to hold of any http server
httpServerListeningMutant == httpServer # "none"

\* setupServer: if (httpServer?.listening)
httpServerListening == httpServer = "listening"

\* setupServer(server), called by configureServer / configurePreviewServer.
SetupServer ==
  /\ alive /\ pc = "new"
  /\ IF NoDomainResolved
     THEN /\ pc' = "noDomain"
          /\ obs' = ObsLog(obs, "noDomain")
          /\ UNCHANGED <<setupStarted, listeners>>
     ELSE IF httpServerListening
     THEN RunSetupOnce(obs) /\ UNCHANGED listeners
     ELSE IF httpServer # "none"
     THEN /\ listeners' = listeners \cup {"listening"}
          /\ pc' = "waiting"
          /\ UNCHANGED <<setupStarted, obs>>
     ELSE IF ~opts.server.hasListen
     THEN RunSetupOnce(obs) /\ UNCHANGED listeners
     ELSE pc' = "waiting" /\ UNCHANGED <<setupStarted, listeners, obs>>
  /\ UNCHANGED <<envVars, run, alive, srvVars, cleanupStarted, tlsPolicyAdded, holdsLock,
                 polls, probeI, snap, sweepTodo, tdVars, daemonVars, lockFile>>

\* httpServer.address(): the bound address of a listening server, else null.
address(hs) ==
  IF hs = "listening"
  THEN [address |-> opts.server.net.address, port |-> opts.server.net.bound]
  ELSE NoAddress

\* server.resolvedUrls?.local?.[0]: Vite's listen() sets it before it returns.
resolvedUrl(returned) ==
  IF opts.server.hasListen => returned THEN opts.server.net.url ELSE NoLocalUrl

\* httpServer emits 'listening': onListening, when it was registered, does
\* updateResolvedTarget(); runSetupOnce().
EmitListening ==
  /\ alive /\ pc # "new" /\ httpServer = "idle"
  /\ httpServer' = "listening"
  /\ IF "listening" \in listeners
     THEN /\ listeners' = listeners \ {"listening"}
          /\ target' = updateResolvedTarget(target, opts.server.net, address("listening"),
                                            resolvedUrl(listenDone))
          /\ RunSetupOnce(obs)
     ELSE UNCHANGED <<listeners, pc, setupStarted, obs, target>>
  /\ UNCHANGED <<envVars, run, alive, listenDone, cleanupStarted, tlsPolicyAdded, holdsLock,
                 polls, probeI, snap, sweepTodo, tdVars, daemonVars, lockFile>>

\* The wrapped server.listen() resolves (wrapServerListen): resolvedPort =
\* null; updateResolvedTarget(); runSetupOnce().  The wrapper exists only when
\* setupServer got past the domain check.
ListenReturns ==
  /\ alive /\ opts.server.hasListen /\ ~listenDone
  /\ pc # "new" /\ httpServer \in {"listening", "none"}
  /\ listenDone' = TRUE
  /\ IF pc = "noDomain"
     THEN UNCHANGED <<pc, setupStarted, obs, target>>
     ELSE /\ target' = updateResolvedTarget([target EXCEPT !.resolvedPort = NoPort],
                                            opts.server.net, address(httpServer),
                                            resolvedUrl(TRUE))
          /\ RunSetupOnce(obs)
  /\ UNCHANGED <<envVars, run, alive, httpServer, cleanupStarted, tlsPolicyAdded, listeners,
                 holdsLock, polls, probeI, snap, sweepTodo, tdVars, daemonVars, lockFile>>

\* ------------------------------------------- ensureCaddyReady (withApiLock)

\* withApiLock's finally, which only the process that opened the marker runs:
\* await handle.close(); await unlink(lockPath).catch(() => undefined)
ReleasedMarkerMutant == lockFile

ReleasedMarker == IF holdsLock THEN "none" ELSE lockFile

\* withApiLock's finally (handle.close(), unlink(lockPath)) and the catch of
\* setupRoute around ensureCaddyReady: the error is logged, setupRoute returns.
ReadyFailMutant(o, cause) ==
  /\ pc' = "sweepList"
  /\ UNCHANGED target
  /\ lockFile' = ReleasedMarker
  /\ holdsLock' = FALSE
  /\ obs' = ObsLog([o EXCEPT !.cause = cause], "baseSettings")

ReadyFail(o, cause) ==
  /\ pc' = "failed"
  /\ UNCHANGED target
  /\ lockFile' = ReleasedMarker
  /\ holdsLock' = FALSE
  /\ obs' = ObsLog([o EXCEPT !.cause = cause], "baseSettings")

\* fn() returned: the marker is removed, setupRoute reads its port and
\* upstreamHost (getServerPort(), getUpstreamHost()) and goes on to the stale
\* sweep (cleanupStaleRoutesForDomains issues its GET).
ReadyDone(o) ==
  /\ pc' = "sweepList"
  /\ target' = LET t == updateResolvedTarget(target, opts.server.net, address(httpServer),
                                             resolvedUrl(listenDone))
               IN [t EXCEPT !.port = getServerPort(t, opts.server.net),
                            !.upstreamHost = getUpstreamHost(t)]
  /\ lockFile' = ReleasedMarker
  /\ holdsLock' = FALSE
  /\ obs' = o

\* withApiLock: if (Date.now() - startedAt >= timeoutMs), the time that has
\* passed being that of the sleep(50) calls so far.
lockWaitOverMutant == FALSE

lockWaitOver == polls * LockPollMs >= LockTimeoutMs

\* The sleeps are counted no further than one past the timeout.
PollCap == LockTimeoutMs \div LockPollMs + 1

\* withApiLock: open(lockPath, 'wx'); on EEXIST sleep(50) until 5000 ms have
\* passed, then run fn() without the marker; any other error is thrown.
LockOpen ==
  /\ alive /\ pc = "lock"
  /\ \/ /\ lockFile = "none"
        /\ lockFile' = "self" /\ holdsLock' = TRUE /\ pc' = "probe"
        /\ UNCHANGED <<polls, obs>>
     \/ /\ lockFile # "none"
        /\ IF lockWaitOver
           THEN pc' = "probe" /\ UNCHANGED polls
           ELSE polls < PollCap /\ polls' = polls + 1 /\ UNCHANGED pc
        /\ UNCHANGED <<lockFile, holdsLock, obs>>
     \/ /\ faultsOn
        /\ pc' = "failed"
        /\ obs' = ObsLog([obs EXCEPT !.cause = "lock"], "baseSettings")
        /\ UNCHANGED <<lockFile, holdsLock, polls>>
  /\ UNCHANGED <<envVars, run, alive, srvVars, setupStarted, cleanupStarted, tlsPolicyAdded,
                 listeners, probeI, snap, sweepTodo, tdVars, daemonVars>>

\* execSync('caddy start'): the command exits with 0, or execSync throws (the
\* command is missing, or exits with an error as when another process has
\* just started the daemon).
LaunchOutcomes == {"started", "threw"}

\* startCaddy: try { execSync('caddy start') } catch (e) {}, then the loop.
afterLaunchMutant(launch) == IF launch = "threw" THEN "failed" ELSE "reprobe"

afterLaunch(launch) == "reprobe"

\* ensureCaddyReady: the first checkCaddyAdminStatus.  On a connectivity error
\* startCaddy runs `caddy start` and issues its first re-probe.
Probe ==
  /\ alive /\ pc = "probe"
  /\ \E r \in Answers :
       LET st == checkCaddyAdminStatus(r)
           o == [ObsApi(obs, r) EXCEPT !.firstProbe = st, !.lastProbe = st,
                                       !.originProbe = (r = "origin403")]
       IN CASE st = "running" ->
                 /\ pc' = "getServer" /\ obs' = o
                 /\ UNCHANGED <<lockFile, holdsLock, probeI>>
            [] st = "connectivity-error" ->
                 \E launch \in LaunchOutcomes :
                   LET ol == [o EXCEPT !.launched = TRUE,
                                       !.launchFailed = (launch = "threw")]
                   IN IF afterLaunch(launch) = "reprobe"
                      THEN /\ pc' = "reprobe" /\ probeI' = 0
                           /\ obs' = ol
                           /\ UNCHANGED <<lockFile, holdsLock>>
                      ELSE ReadyFail(ol, "launch") /\ UNCHANGED probeI
            [] OTHER -> ReadyFail(o, "probe") /\ UNCHANGED probeI
  /\ UNCHANGED <<envVars, run, alive, srvVars, setupStarted, cleanupStarted, tlsPolicyAdded,
                 listeners, polls, snap, sweepTodo, tdVars, daemonVars>>

\* startCaddy's loop: if (status === 'api-error') throw.
startCaddyThrowsMutant(st) == FALSE

startCaddyThrows(st) == st = "api-error"

\* startCaddy: one round of the loop (probe, then sleep(500) and i++).
Reprobe ==
  /\ alive /\ pc = "reprobe"
  /\ \E r \in Answers :
       LET st == checkCaddyAdminStatus(r)
           o == [ObsApi(obs, r) EXCEPT !.reachable = @ \/ st = "running",
                                       !.lastProbe = st,
                                       !.originProbe = (r = "origin403")]
       IN IF startCaddySeesRunning(st)
          THEN /\ pc' = "getServer"
               /\ obs' = o
               /\ UNCHANGED <<lockFile, holdsLock, probeI>>
          ELSE IF startCaddyThrows(st)
          THEN ReadyFail(o, "reprobe") /\ UNCHANGED probeI
          ELSE IF probeI + 1 < StartProbes
          THEN /\ probeI' = probeI + 1 /\ obs' = o
               /\ UNCHANGED <<pc, lockFile, holdsLock>>
          ELSE ReadyFail(o, "notStarted") /\ probeI' = probeI + 1
  /\ UNCHANGED <<envVars, run, alive, srvVars, setupStarted, cleanupStarted, tlsPolicyAdded,
                 listeners, polls, snap, sweepTodo, tdVars, daemonVars>>


\* ------------------------------------------------------- ensureBaseConfig

\* A create request is accepted when it is answered ok or with 409:
\* if (!res.ok && res.status !== 409) throw
CreateAcceptedMutant(status) == IsOk(status)

CreateAccepted(status) == IsOk(status) \/ status = 409

\* PUT of the object at depth `level` of apps/http/servers/<name>: created when
\* exactly its parent exists, 409 when it exists already, an error otherwise.
PutStatus(have, level) ==
  IF have >= level THEN 409 ELSE IF have = level - 1 THEN 200 ELSE 400

\* Where ensureBaseConfig goes next, given its hasApps/hasHttp/hasServers.
NextScaffoldStep(sn) ==
  IF ~sn.hasApps THEN "putApps"
  ELSE IF ~sn.hasHttp THEN "putHttp"
  ELSE IF ~sn.hasServers THEN "putServers"
  ELSE "putServer"

ScaffoldFrame ==
  UNCHANGED <<envVars, run, alive, httpServer, listenDone, setupStarted, cleanupStarted, tlsPolicyAdded,
              listeners, polls, probeI, sweepTodo, tdVars, tlsLevel, policies>>

\* GET /config/apps/http/servers/<name>: return when ok; throw on an origin
\* rejection; on any other answer go on and read the whole config.
GetServer ==
  /\ alive /\ pc = "getServer"
  /\ \E r \in Answers :
       LET status == StatusOf(r, IF cfgLevel = ServerLevel THEN 200 ELSE 404)
           o == [ObsApi(obs, r) EXCEPT
                   !.serverRead = IF r # "nominal" THEN "fault"
                                  ELSE IF cfgLevel = ServerLevel THEN "ok" ELSE "absent"]
       IN IF Rejected(r) \/ isOriginPolicyError(r, status)
          THEN ReadyFail(o, "scaffold")
          ELSE IF IsOk(status)
          THEN ReadyDone(o)
          ELSE /\ pc' = "getConfig"
               /\ obs' = o
               /\ UNCHANGED <<lockFile, holdsLock, target>>
  /\ UNCHANGED <<snap, cfgLevel, routes>>
  /\ ScaffoldFrame

\* GET /config/: an empty config is loaded whole; otherwise the parts that the
\* snapshot lacks are created one by one.
GetConfig ==
  /\ alive /\ pc = "getConfig"
  /\ \E r \in Answers :
       LET o == ObsApi(obs, r)
       IN IF r # "nominal"
          THEN ReadyFail(o, "scaffold") /\ UNCHANGED snap
          ELSE LET sn == [hasApps |-> cfgLevel >= 2, hasHttp |-> cfgLevel >= 3,
                          hasServers |-> cfgLevel >= 4]
               IN /\ snap' = sn
                  /\ pc' = IF cfgLevel = 0 THEN "load" ELSE NextScaffoldStep(sn)
                  /\ obs' = o
                  /\ UNCHANGED <<lockFile, holdsLock, target>>
  /\ UNCHANGED <<cfgLevel, routes>>
  /\ ScaffoldFrame

\* POST /load with { apps: { http: { servers: { <name>: base } } } }: the whole
\* configuration of the daemon is replaced.
Load ==
  /\ alive /\ pc = "load"
  /\ \E r \in Answers :
       LET o == ObsApi(obs, r)
       IN IF r # "nominal"
          THEN /\ ReadyFail(o, "scaffold")
               /\ UNCHANGED <<cfgLevel, routes, tlsLevel, policies>>
          ELSE /\ cfgLevel' = ServerLevel /\ routes' = <<>>
               /\ tlsLevel' = 0 /\ policies' = <<>>
               /\ ReadyDone(o)
  /\ UNCHANGED <<envVars, run, alive, httpServer, listenDone, setupStarted, cleanupStarted, tlsPolicyAdded,
                 listeners, polls, probeI, snap, sweepTodo, tdVars>>

\* One PUT of the scaffold: `level` is the depth the object lives at, `step` the
\* position, `sn` the flags after it, `last` whether it is the PUT of the server.
ScaffoldPut(step, level, sn, last) ==
  /\ alive /\ pc = step
  /\ \E r \in Answers :
       LET status == StatusOf(r, PutStatus(cfgLevel, level))
           o == [ObsApi(obs, r) EXCEPT
                   !.conflicts = IF r = "nominal" /\ status = 409 THEN @ + 1 ELSE @]
       IN IF Rejected(r) \/ ~CreateAccepted(status)
          THEN /\ ReadyFail(o, "scaffold")
               /\ UNCHANGED <<snap, cfgLevel, routes>>
          ELSE /\ cfgLevel' = IF r = "nominal" /\ status = 200
                              THEN (IF level = 3 THEN 4 ELSE level) ELSE cfgLevel
               /\ routes' = routes
               /\ snap' = sn
               /\ IF last
                  THEN ReadyDone(o)
                  ELSE /\ pc' = NextScaffoldStep(sn) /\ obs' = o
                       /\ UNCHANGED <<lockFile, holdsLock, target>>
  /\ ScaffoldFrame

\* PUT /config/apps {}
PutApps == ScaffoldPut("putApps", 2, [snap EXCEPT !.hasApps = TRUE], FALSE)

\* PUT /config/apps/http { servers: {} }: hasHttp = true and hasServers = true
PutHttp ==
  ScaffoldPut("putHttp", 3, [snap EXCEPT !.hasHttp = TRUE, !.hasServers = TRUE], FALSE)

\* PUT /config/apps/http/servers {}
PutServers == ScaffoldPut("putServers", 4, [snap EXCEPT !.hasServers = TRUE], FALSE)

\* PUT /config/apps/http/servers/<name> { listen: [':443'], routes: [] }
PutServer == ScaffoldPut("putServer", ServerLevel, snap, TRUE)

\* Another process creates the next missing part of the scaffold while this
\* one is inside ensureBaseConfig (the marker only keeps out processes that
\* name the daemon by the same URL and have not waited 5000 ms): POST /load on
\* an empty config, else the PUT of apps, of http with its servers, of servers,
\* of the server.
OtherProcessScaffolds ==
  /\ alive /\ pc \in {"getConfig", "load", "putApps", "putHttp", "putServers", "putServer"}
  /\ cfgLevel < ServerLevel
  /\ cfgLevel' = CASE cfgLevel = 0 -> ServerLevel
                   [] cfgLevel = 2 -> 4
                   [] OTHER -> cfgLevel + 1
  /\ UNCHANGED <<envVars, run, alive, srvVars, setupVars, cleanupStarted, listeners, tdVars,
                 tlsLevel, routes, policies, lockFile, obs>>

\* ------------------------------------------------- setupRoute: reconcile

\* cleanupStaleRoutesForDomains, the test of one parsed route: its @id starts
\* with 'vite-proxy-', is not the current route id, and its matched hosts
\* intersect the target domains.
IsStaleRouteMutant(route, domains, currentRouteId) ==
  /\ route.id.prefix = "vite-proxy-"
  /\ route.id = currentRouteId
  /\ route.hosts \cap Range(domains) # {}

IsStaleRoute(route, domains, currentRouteId) ==
  /\ route.id.prefix = "vite-proxy-"
  /\ route.id # currentRouteId
  /\ route.hosts \cap Range(domains) # {}

\* The ids of all the routes: a loop that tests nothing.
StaleIdsMutant(list, domains, currentRouteId) == [i \in 1..Len(list) |-> list[i].id]

\* The ids the loop of cleanupStaleRoutesForDomains will delete, in list order.
StaleIds(list, domains, currentRouteId) ==
  LET stale == SelectSeq(list, LAMBDA route : IsStaleRoute(route, domains, currentRouteId))
  IN [i \in 1..Len(stale) |-> stale[i].id]

\* removeRoute / removeTlsPolicy: the list after DELETE /id/<id> was answered with r.
deleteByIdEffectMutant(list, id, r) == list

deleteByIdEffect(list, id, r) == IF r = "nominal" THEN RemoveId(list, id) ELSE list

\* setupRoute has no catch around the sweep, the two deletes and the rollback:
\* a rejected fetch rejects the promise of `void setupRoute()`.
SetupThrows(o) ==
  /\ pc' = "threw"
  /\ obs' = [o EXCEPT !.unhandled = TRUE]

\* After removeRoute(routeId), were `if (tlsPolicyId)` never taken
AfterRemoveRouteMutant == "addRoute"

\* After removeRoute(routeId): the TLS policy when one is requested, else the route.
AfterRemoveRoute == IF tlsPolicyId # NullId THEN "rmTls" ELSE "addRoute"

ReconcileFrame ==
  UNCHANGED <<envVars, run, alive, srvVars, setupStarted, cleanupStarted, holdsLock, polls,
              probeI, snap, tdVars, cfgLevel, lockFile>>

\* The body of an ok answer to GET .../routes: the JSON list of the routes, or
\* a text that parseConfig does not turn into an array (not JSON, empty, null).
RouteListBodies == IF faultsOn THEN {"list", "notList"} ELSE {"list"}

\* cleanupStaleRoutesForDomains: `if (!res.ok) return;` and
\* `if (!Array.isArray(parsed)) return;`
routeListReadMutant(status, body) == TRUE

routeListRead(status, body) == IsOk(status) /\ body = "list"

\* cleanupStaleRoutesForDomains: GET .../routes; nothing is swept unless the
\* answer is ok and parses as a list.  ensureCaddyReady has returned: the
\* locals of withApiLock, startCaddy and ensureBaseConfig are gone.
SweepList ==
  /\ alive /\ pc = "sweepList"
  /\ \E r \in Answers, body \in RouteListBodies :
       LET status == StatusOf(r, IF cfgLevel = ServerLevel THEN 200 ELSE 404)
           o == [ObsApi(obs, r) EXCEPT
                   !.serverRead = "none", !.conflicts = 0, !.launchFailed = FALSE,
                   !.listRead = IF Rejected(r) THEN "none"
                                ELSE IF IsOk(status) THEN body ELSE "notOk"]
           todo == StaleIds(routes, domainArray, routeId)
       IN IF Rejected(r)
          THEN SetupThrows(o) /\ UNCHANGED sweepTodo
          ELSE IF ~routeListRead(status, body) \/ todo = <<>>
          THEN pc' = "rmRoute" /\ obs' = o /\ UNCHANGED sweepTodo
          ELSE pc' = "sweepDelete" /\ obs' = o /\ sweepTodo' = todo
  /\ polls' = 0 /\ probeI' = 0 /\ snap' = NoSnapshot
  /\ UNCHANGED <<tlsPolicyAdded, listeners, routes, tlsLevel, policies>>
  /\ UNCHANGED <<envVars, run, alive, srvVars, setupStarted, cleanupStarted, holdsLock, tdVars,
                 cfgLevel, lockFile>>

\* cleanupStaleRoutesForDomains: removeRoute(id) for the next stale route; the
\* result is not looked at.
SweepDelete ==
  /\ alive /\ pc = "sweepDelete"
  /\ \E r \in Answers :
       LET id == Head(sweepTodo)
           status == StatusOf(r, DeleteStatus(routes, id))
           o == [ObsRemover(ObsApi(obs, r), status) EXCEPT
                   !.swept = IF IsOk(status) THEN @ + 1 ELSE @]
       IN IF Rejected(r)
          THEN SetupThrows(o) /\ UNCHANGED <<sweepTodo, routes>>
          ELSE /\ routes' = deleteByIdEffect(routes, id, r)
               /\ sweepTodo' = Tail(sweepTodo)
               /\ pc' = IF Tail(sweepTodo) = <<>> THEN "rmRoute" ELSE "sweepDelete"
               /\ obs' = o
  /\ UNCHANGED <<tlsPolicyAdded, listeners, tlsLevel, policies>>
  /\ ReconcileFrame

\* await removeRoute(routeId, ...)
RmRoute ==
  /\ alive /\ pc = "rmRoute"
  /\ \E r \in Answers :
       LET status == StatusOf(r, DeleteStatus(routes, routeId))
           o == [ObsRemover(ObsApi(obs, r), status) EXCEPT !.listRead = "none", !.swept = 0]
       IN IF Rejected(r)
          THEN SetupThrows(o) /\ UNCHANGED routes
          ELSE /\ routes' = deleteByIdEffect(routes, routeId, r)
               /\ pc' = AfterRemoveRoute
               /\ obs' = o
  /\ UNCHANGED <<tlsPolicyAdded, listeners, sweepTodo, tlsLevel, policies>>
  /\ ReconcileFrame

\* await removeTlsPolicy(tlsPolicyId, ...), then addTlsPolicy starts with the
\* GET of ensureTlsAutomation.
RmTls ==
  /\ alive /\ pc = "rmTls"
  /\ \E r \in Answers :
       LET status == StatusOf(r, DeleteStatus(policies, tlsPolicyId))
           o == ObsRemover(ObsApi(obs, r), status)
       IN IF Rejected(r)
          THEN SetupThrows(o) /\ UNCHANGED policies
          ELSE /\ policies' = deleteByIdEffect(policies, tlsPolicyId, r)
               /\ pc' = "tlsGet"
               /\ obs' = o
  /\ UNCHANGED <<tlsPolicyAdded, listeners, sweepTodo, tlsLevel, routes>>
  /\ ReconcileFrame


\* --------------------------------------- addTlsPolicy (ensureTlsAutomation)

\* isTlsPolicyOverlapError(text): the body names the overlap.
isTlsPolicyOverlapErrorMutant(text) == FALSE

isTlsPolicyOverlapError(text) == text = "cannot apply more than one automation policy to host"

\* PUT of apps/tls (level 1) or apps/tls/automation (level 2, with its empty
\* policy list): 409 when it exists, "invalid traversal path" without a parent.
TlsPutStatus(have, level) ==
  IF have >= level THEN 409 ELSE IF have = level - 1 \/ level = 1 THEN 200 ELSE 400

\* The catch of setupRoute around addTlsPolicy: logged, setupRoute returns.
AddTlsFail(o) ==
  /\ pc' = "failed"
  /\ obs' = ObsLog(o, "addTlsPolicy")

\* GET /config/apps/tls/automation/policies: return when ok; go on when the
\* answer is 404 or names an invalid traversal path; throw otherwise.
TlsGet ==
  /\ alive /\ pc = "tlsGet"
  /\ \E r \in Answers :
       LET o == ObsApi(obs, r)
       IN IF r # "nominal"
          THEN AddTlsFail(o)
          ELSE pc' = (IF tlsLevel = PoliciesLevel THEN "tlsPost" ELSE "tlsPutAutomation")
               /\ obs' = o
  /\ UNCHANGED <<tlsPolicyAdded, listeners, sweepTodo, routes, tlsLevel, policies>>
  /\ ReconcileFrame

\* PUT /config/apps/tls/automation { policies: [] }: done when ok or 409; the
\* tls app is created next when the path is an invalid traversal.
TlsPutAutomation ==
  /\ alive /\ pc = "tlsPutAutomation"
  /\ \E r \in Answers :
       LET status == StatusOf(r, TlsPutStatus(tlsLevel, PoliciesLevel))
           o == ObsApi(obs, r)
       IN IF r # "nominal"
          THEN AddTlsFail(o) /\ UNCHANGED tlsLevel
          ELSE IF CreateAccepted(status)
          THEN /\ tlsLevel' = PoliciesLevel
               /\ pc' = "tlsPost" /\ obs' = o
          ELSE pc' = "tlsPutTls" /\ obs' = o /\ UNCHANGED tlsLevel
  /\ UNCHANGED <<tlsPolicyAdded, listeners, sweepTodo, routes, policies>>
  /\ ReconcileFrame

\* PUT /config/apps/tls { automation: { policies: [] } }
TlsPutTls ==
  /\ alive /\ pc = "tlsPutTls"
  /\ \E r \in Answers :
       LET status == StatusOf(r, TlsPutStatus(tlsLevel, 1))
           o == ObsApi(obs, r)
       IN IF Rejected(r) \/ ~CreateAccepted(status)
          THEN AddTlsFail(o) /\ UNCHANGED tlsLevel
          ELSE /\ tlsLevel' = IF status = 200 THEN PoliciesLevel ELSE tlsLevel
               /\ pc' = "tlsPost" /\ obs' = o
  /\ UNCHANGED <<tlsPolicyAdded, listeners, sweepTodo, routes, policies>>
  /\ ReconcileFrame

\* The daemon's message for a policy whose subjects another policy claims.
OverlapText == "cannot apply more than one automation policy to host"

\* The body of the daemon's answer to POST .../policies with these subjects.
PolicyPostText(list, subjects) == IF Overlaps(list, subjects) THEN OverlapText ELSE ""

\* POST /config/apps/tls/automation/policies: an overlap rejection returns
\* normally; any other failure is thrown.  tlsPolicyAdded = true on return.
TlsPost ==
  /\ alive /\ pc = "tlsPost"
  /\ \E r \in Answers :
       LET subjects == Range(domainArray)
           text == IF r = "nominal" THEN PolicyPostText(policies, subjects) ELSE "error"
           status == StatusOf(r, IF tlsLevel = PoliciesLevel /\ text = "" THEN 200 ELSE 400)
           o == [ObsApi(obs, r) EXCEPT !.overlap = @ \/ text = OverlapText]
       IN IF Rejected(r) \/ (~IsOk(status) /\ ~isTlsPolicyOverlapError(text))
          THEN AddTlsFail(o) /\ UNCHANGED <<policies, tlsPolicyAdded>>
          ELSE /\ policies' = IF IsOk(status)
                              THEN Append(policies, [id |-> tlsPolicyId, subjects |-> subjects])
                              ELSE policies
               /\ tlsPolicyAdded' = TRUE
               /\ pc' = "addRoute"
               /\ obs' = o
  /\ UNCHANGED <<listeners, sweepTodo, routes, tlsLevel>>
  /\ ReconcileFrame

\* ------------------------------------------------------------- addRoute

\* registerProcessCleanup(); httpServer?.once('close', onServerClose)
TeardownHooks == {"SIGINT", "SIGTERM"} \cup (IF httpServer # "none" THEN {"close"} ELSE {})

\* POST .../routes (append).  On success the teardown hooks are registered; on
\* failure the policy added by this run is removed again before the error is
\* logged.
AddRoute ==
  /\ alive /\ pc = "addRoute"
  /\ \E r \in Answers :
       LET status == StatusOf(r, IF cfgLevel = ServerLevel THEN 200 ELSE 400)
           o == ObsApi(obs, r)
       IN IF Rejected(r) \/ ~IsOk(status)
          THEN /\ IF tlsPolicyAdded /\ tlsPolicyId # NullId
                  THEN pc' = "rollback" /\ obs' = o
                  ELSE pc' = "failed" /\ obs' = ObsLog(o, "addRoute")
               /\ UNCHANGED <<routes, listeners>>
          ELSE /\ routes' = Append(routes, [id |-> routeId, hosts |-> Range(domainArray),
                                            dial |-> target.upstreamHost,
                                            upstream |-> target.port])
               /\ listeners' = listeners \cup TeardownHooks
               /\ pc' = "active"
               /\ obs' = IF o.firstCfg = <<>>
                         THEN [o EXCEPT !.firstCfg = <<run, routes', policies>>] ELSE o
  /\ UNCHANGED <<tlsPolicyAdded, sweepTodo, tlsLevel, policies>>
  /\ ReconcileFrame

\* The catch around addRoute: await removeTlsPolicy(tlsPolicyId), then log.
Rollback ==
  /\ alive /\ pc = "rollback"
  /\ \E r \in Answers :
       LET status == StatusOf(r, DeleteStatus(policies, tlsPolicyId))
           o == [ObsRemover(ObsApi(obs, r), status) EXCEPT
                   !.rollback = IF r = "nominal" THEN "ok" ELSE "failed"]
       IN IF Rejected(r)
          THEN SetupThrows(o) /\ UNCHANGED policies
          ELSE /\ policies' = deleteByIdEffect(policies, tlsPolicyId, r)
               /\ pc' = "failed"
               /\ obs' = ObsLog(o, "addRoute")
  /\ UNCHANGED <<tlsPolicyAdded, listeners, sweepTodo, routes, tlsLevel>>
  /\ ReconcileFrame


\* ------------------------------------------------------------- teardown

\* cleanupRoute: if (cleanupStarted) return;
cleanupRouteReturnsEarlyMutant == FALSE

cleanupRouteReturnsEarly == cleanupStarted

\* cleanupRoute past its guard, up to the first await: cleanupStarted = true and
\* the first remover call of removeWithRetry is issued.
BeginCleanup(o) ==
  /\ cleanupStarted' = TRUE
  /\ td' = IF tlsPolicyId # NullId THEN "tls" ELSE "route"
  /\ attempt' = 0
  /\ delayMs' = InitialDelayMs
  /\ obs' = [o EXCEPT !.tdStarts = @ + 1, !.sibAtStart = sib.pc]

\* httpServer emits 'close': onServerClose, when it was registered (once).
EmitClose ==
  /\ alive /\ httpServer = "listening"
  /\ httpServer' = "closed"
  /\ IF "close" \in listeners
     THEN /\ listeners' = listeners \ {"close"}
          /\ IF cleanupRouteReturnsEarly
             THEN /\ obs' = [obs EXCEPT !.triggers = @ + 1]
                  /\ UNCHANGED <<cleanupStarted, td, attempt, delayMs>>
             ELSE BeginCleanup([obs EXCEPT !.triggers = @ + 1])
     ELSE UNCHANGED <<listeners, cleanupStarted, td, attempt, delayMs, obs>>
  /\ UNCHANGED <<envVars, run, alive, listenDone, target, setupVars, pendingKill, daemonVars,
                 lockFile>>

\* The process receives SIGINT or SIGTERM.  With the handler registered:
\* handleSignal removes both handlers and calls cleanupRoute().finally(kill);
\* when cleanupRoute returns at its guard the promise is already resolved and
\* the kill follows before any pending response is handled.  Without a
\* handler the signal has its default disposition.
Signal(sig) ==
  /\ alive
  /\ IF sig \in listeners
     THEN /\ listeners' = listeners \ {"SIGINT", "SIGTERM"}
          /\ IF cleanupRouteReturnsEarly
             THEN /\ obs' = [obs EXCEPT !.triggers = @ + 1, !.reraised = sig,
                                        !.tdAtReraise = td]
                  /\ alive' = FALSE
                  /\ UNCHANGED <<cleanupStarted, td, attempt, delayMs, pendingKill>>
             ELSE /\ BeginCleanup([obs EXCEPT !.triggers = @ + 1])
                  /\ pendingKill' = sig
                  /\ UNCHANGED alive
     ELSE /\ alive' = FALSE
          /\ UNCHANGED <<listeners, cleanupStarted, tdVars, obs>>
  /\ UNCHANGED <<envVars, run, srvVars, setupVars, daemonVars, lockFile>>

\* The promise of cleanupRoute settles: the .finally of handleSignal re-raises
\* the signal; a rejection of `void cleanupRoute()` has no handler.
Settle(o, where, rejected) ==
  IF pendingKill # "none"
  THEN /\ obs' = [o EXCEPT !.reraised = pendingKill, !.tdAtReraise = where]
       /\ alive' = FALSE
       /\ pendingKill' = "none"
  ELSE /\ obs' = [o EXCEPT !.unhandled = @ \/ rejected]
       /\ UNCHANGED <<alive, pendingKill>>

\* removeWithRetry is over for `which`; cleanupRoute goes on.
NextEntry(o, which) ==
  IF which = "tls"
  THEN /\ td' = "route" /\ attempt' = 0 /\ delayMs' = InitialDelayMs
       /\ obs' = o
       /\ UNCHANGED <<alive, pendingKill>>
  ELSE /\ td' = "done" /\ UNCHANGED <<attempt, delayMs>>
       /\ Settle(o, "done", FALSE)

\* removeWithRetry, after `attempt += 1`: `if (attempt < maxAttempts)`, which
\* is also the condition of the loop for the next remover call.
attemptsLeftMutant(attempted) == FALSE

attemptsLeft(attempted) == attempted < MaxAttempts

\* removeWithRetry: the answer to one remover call (removeTlsPolicy or
\* removeRoute) arrives.
TdDelete ==
  /\ alive /\ td \in {"tls", "route"}
  /\ \E r \in Answers :
       LET which == td
           list == IF which = "tls" THEN policies ELSE routes
           id == IF which = "tls" THEN tlsPolicyId ELSE routeId
           status == StatusOf(r, DeleteStatus(list, id))
           after == deleteByIdEffect(list, id, r)
           o == [ObsRemover(ObsApi(obs, r), status) EXCEPT
                   !.calls[which] = @ + 1,
                   !.originDelete = IF r = "origin403" THEN "rejected" ELSE "none"]
       IN IF Rejected(r)
          THEN /\ td' = "threw"
               /\ Settle(o, "threw", TRUE)
               /\ UNCHANGED <<attempt, delayMs, routes, policies>>
          ELSE /\ routes' = IF which = "route" THEN after ELSE routes
               /\ policies' = IF which = "tls" THEN after ELSE policies
               /\ IF removeReturns(status)
                  THEN NextEntry([o EXCEPT !.okd[which] = TRUE], which)
                  ELSE IF attemptsLeft(attempt + 1)
                  THEN /\ attempt' = attempt + 1
                       /\ td' = IF which = "tls" THEN "tlsWait" ELSE "routeWait"
                       /\ obs' = o
                       /\ UNCHANGED <<delayMs, alive, pendingKill>>
                  ELSE NextEntry(ObsLog(o, IF which = "tls" THEN "tlsAfter3" ELSE "routeAfter3"),
                                 which)
  /\ UNCHANGED <<envVars, run, srvVars, setupVars, cleanupStarted, listeners, cfgLevel,
                 tlsLevel, lockFile>>

\* removeWithRetry: delayMs *= 2
nextDelayMutant(ms) == ms

nextDelay(ms) == ms * 2

\* removeWithRetry: await wait(delayMs); delayMs *= 2; the next call is issued.
TdWait ==
  /\ alive /\ td \in {"tlsWait", "routeWait"}
  /\ td' = IF td = "tlsWait" THEN "tls" ELSE "route"
  /\ delayMs' = nextDelay(delayMs)
  /\ obs' = [obs EXCEPT !.originDelete = IF @ = "rejected" THEN "again" ELSE @]
  /\ UNCHANGED <<envVars, run, alive, srvVars, setupVars, cleanupStarted, listeners, attempt,
                 pendingKill, daemonVars, lockFile>>

\* ------------------------------------------------------ process lifetime

\* The process ends abruptly (SIGKILL, power loss): nothing is cleaned up.
Crash ==
  /\ alive /\ pc # "new"
  /\ alive' = FALSE
  /\ UNCHANGED <<envVars, run, srvVars, setupVars, cleanupStarted, listeners, tdVars,
                 daemonVars, lockFile, obs>>

\* The developer starts the dev server again with the same options: a new
\* process, a new plugin instance.  A marker the dead process left stays.
Restart ==
  /\ ~alive /\ run < MaxRuns
  /\ run' = run + 1
  /\ alive' = TRUE
  /\ httpServer' = opts.server.http
  /\ listenDone' = FALSE
  /\ target' = NoTarget
  /\ pc' = "new"
  /\ setupStarted' = FALSE
  /\ cleanupStarted' = FALSE
  /\ tlsPolicyAdded' = FALSE
  /\ listeners' = {}
  /\ holdsLock' = FALSE
  /\ polls' = 0
  /\ probeI' = 0
  /\ snap' = NoSnapshot
  /\ sweepTodo' = <<>>
  /\ td' = "idle"
  /\ attempt' = 0
  /\ delayMs' = InitialDelayMs
  /\ pendingKill' = "none"
  /\ lockFile' = IF lockFile = "self" THEN "other" ELSE lockFile
  /\ obs' = [InitObs EXCEPT !.firstCfg = obs.firstCfg]
  /\ UNCHANGED <<envVars, daemonVars>>

\* ---------------------------------------------------------- specification

Next ==
  \/ SetupServer \/ EmitListening \/ ListenReturns
  \/ LockOpen \/ Probe \/ Reprobe
  \/ GetServer \/ GetConfig \/ Load \/ PutApps \/ PutHttp \/ PutServers \/ PutServer
  \/ OtherProcessScaffolds
  \/ SweepList \/ SweepDelete \/ RmRoute \/ RmTls
  \/ TlsGet \/ TlsPutAutomation \/ TlsPutTls \/ TlsPost
  \/ AddRoute \/ Rollback
  \/ EmitClose \/ Signal("SIGINT") \/ Signal("SIGTERM") \/ TdDelete \/ TdWait
  \/ Crash

Spec == Init /\ [][Next]_vars

\* ------------------------------------------------- the dev server restarted

\* The same options used for one process after another (`vite dev`, so a
\* server with an httpServer and listen()) against one daemon, which answers
\* from its configuration or, for the project with domain: ' A.localhost ',
\* with faults.
RestartOptionSets(faults) ==
  { o \in OptionSets :
      /\ o.server = DevServer
      /\ faults => o.domain = DomainOption(<<Padded(1)>>) /\ o.internalTls = "unset" }

InitRestart ==
  /\ fx = IdleFx
  /\ faultsOn \in BOOLEAN
  /\ opts \in RestartOptionSets(faultsOn)
  /\ \E d \in {x \in DaemonInits : DaemonInitOk(x)} :
       /\ cfgLevel = d.cfg
       /\ tlsLevel = d.tls
       /\ routes = d.routes
       /\ policies = d.policies
  /\ lockFile = "none"
  /\ sib = NoSibling
  /\ InstanceInit

NextRestart == Next \/ Restart

SpecRestart == InitRestart /\ [][NextRestart]_vars

\* ------------------------------------------- two instances on one daemon

\* The second instance: another plugin instance of the same project with the
\* same options ("same": as in the test 'reuses deterministic route ids for
\* the same instance key'), or one of another project with another hostname
\* ("other"), or one of another project root with the same hostnames
\* ("overlap").  Its server is bound to SecondPort.
SibDomainArray ==
  IF sib.kind \in {"same", "overlap"} THEN domainArray
  ELSE resolveDomains(DomainOption(<<Raw(2)>>), 0)

SibRouteId ==
  IF sib.kind = "same" THEN routeId ELSE RouteIdOf(SibDomainArray, 2, 2)

SibTlsPolicyId ==
  TlsPolicyIdOf(SibRouteId, shouldUseInternalTls(opts.internalTls, opts.baseSet, opts.domain))

SibFrame ==
  UNCHANGED <<fx, opts, faultsOn, run, alive, srvVars, setupVars, cleanupStarted, listeners,
              tdVars, cfgLevel, lockFile, obs>>

\* setupRoute of the second instance: await removeRoute(routeId, ...)
SibRmRoute ==
  /\ sib.pc = "rmRoute"
  /\ routes' = RemoveId(routes, SibRouteId)
  /\ sib' = [sib EXCEPT !.pc = IF SibTlsPolicyId # NullId THEN "rmTls" ELSE "addRoute"]
  /\ UNCHANGED <<tlsLevel, policies>>
  /\ SibFrame

\* await removeTlsPolicy(tlsPolicyId, ...)
SibRmTls ==
  /\ sib.pc = "rmTls"
  /\ policies' = RemoveId(policies, SibTlsPolicyId)
  /\ sib' = [sib EXCEPT !.pc = "addTls"]
  /\ UNCHANGED <<tlsLevel, routes>>
  /\ SibFrame

\* await addTlsPolicy(tlsPolicyId, domainArray, ...): the policy list is made
\* to exist and the policy is appended, unless the daemon refuses it as
\* overlapping.
SibAddTls ==
  /\ sib.pc = "addTls"
  /\ tlsLevel' = PoliciesLevel
  /\ policies' = IF Overlaps(policies, Range(SibDomainArray)) THEN policies
                 ELSE Append(policies, [id |-> SibTlsPolicyId,
                                        subjects |-> Range(SibDomainArray)])
  /\ sib' = [sib EXCEPT !.pc = "addRoute"]
  /\ UNCHANGED routes
  /\ SibFrame

\* await addRoute(routeId, domainArray, port, ...): the instance is Active.
SibAddRoute ==
  /\ sib.pc = "addRoute"
  /\ routes' = Append(routes, [id |-> SibRouteId, hosts |-> Range(SibDomainArray),
                               dial |-> "127.0.0.1", upstream |-> SecondPort])
  /\ sib' = [sib EXCEPT !.pc = "active"]
  /\ UNCHANGED <<tlsLevel, policies>>
  /\ SibFrame

\* What the user may have written for caddyApiUrl and caddyAdminOrigin.
AddressOptions ==
  { [api |-> UrlNotGiven, admin |-> UrlNotGiven],
    [api |-> UrlGiven("http://localhost:2020", "/", FALSE), admin |-> UrlNotGiven],
    [api |-> UrlGiven("http://localhost:2020", "/", TRUE),
     admin |-> UrlGiven("https://admin.example", "/ui", TRUE)],
    [api |-> UrlGiven("", "", TRUE), admin |-> UrlGiven("", "not a url", FALSE)] }

SiblingOptionSets ==
  { [o EXCEPT !.caddyApiUrl = a.api, !.caddyAdminOrigin = a.admin] :
      o \in RestartOptionSets(TRUE), a \in AddressOptions }

\* Two instances and a daemon that is running, has the server and answers
\* every request from its configuration; the second instance is about to
\* reconcile.
InitSiblings ==
  /\ fx = IdleFx
  /\ faultsOn = FALSE
  /\ opts \in SiblingOptionSets
  /\ cfgLevel = ServerLevel
  /\ tlsLevel \in {0, PoliciesLevel}
  /\ routes = <<>>
  /\ policies = <<>>
  /\ lockFile = "none"
  /\ sib \in {[kind |-> k, pc |-> "rmRoute"] : k \in {"same", "other", "overlap"}}
  /\ InstanceInit

NextSiblings ==
  \/ SetupServer \/ EmitListening \/ ListenReturns
  \/ LockOpen \/ Probe \/ GetServer
  \/ SweepList \/ SweepDelete \/ RmRoute \/ RmTls
  \/ TlsGet \/ TlsPutAutomation \/ TlsPutTls \/ TlsPost
  \/ AddRoute
  \/ EmitClose \/ Signal("SIGINT") \/ Signal("SIGTERM") \/ TdDelete
  \/ SibRmRoute \/ SibRmTls \/ SibAddTls \/ SibAddRoute

SpecSiblings == InitSiblings /\ [][NextSiblings]_vars

\* ------------------------------------------ two processes, one daemon URL

\* A second process (sib.kind = "boot") names the daemon by the same URL, so
\* the same lock path, and has opened the marker.  Its ensureCaddyReady is
\* followed as far as the marker and the daemon show it; its instance has
\* another RouteID.
BootFrame ==
  UNCHANGED <<fx, opts, faultsOn, run, alive, srvVars, setupVars, cleanupStarted, listeners,
              tdVars, obs>>

\* checkCaddyAdminStatus of the second process: 'running', or a connectivity
\* error, upon which startCaddy runs `caddy start`; an api-error is thrown
\* and withApiLock's finally removes the marker.
SibProbe ==
  /\ sib.kind = "boot" /\ sib.pc = "probe"
  /\ \E st \in {"running", "connectivity-error", "api-error"} :
       /\ sib' = [sib EXCEPT !.pc = CASE st = "running" -> "scaffold"
                                      [] st = "connectivity-error" -> "reprobe"
                                      [] OTHER -> "failed"]
       /\ lockFile' = IF st = "api-error" THEN "none" ELSE lockFile
  /\ UNCHANGED daemonVars
  /\ BootFrame

\* startCaddy of the second process: a probe of its loop is answered
\* 'running', or the loop ends without one and ensureCaddyReady throws.
SibReprobe ==
  /\ sib.kind = "boot" /\ sib.pc = "reprobe"
  /\ \E up \in BOOLEAN :
       /\ sib' = [sib EXCEPT !.pc = IF up THEN "scaffold" ELSE "failed"]
       /\ lockFile' = IF up THEN lockFile ELSE "none"
  /\ UNCHANGED daemonVars
  /\ BootFrame

\* ensureBaseConfig of the second process, then withApiLock's finally: what
\* is missing of apps/http/servers/<name> is created (POST /load when the
\* config is empty), the marker is removed, setupRoute goes on.
SibScaffold ==
  /\ sib.kind = "boot" /\ sib.pc = "scaffold"
  /\ cfgLevel' = ServerLevel
  /\ IF cfgLevel = 0
     THEN routes' = <<>> /\ policies' = <<>> /\ tlsLevel' = 0
     ELSE UNCHANGED <<routes, policies, tlsLevel>>
  /\ lockFile' = "none"
  /\ sib' = [sib EXCEPT !.pc = "rmRoute"]
  /\ BootFrame

\* The positions of ensureCaddyReady inside withApiLock's fn().
BootstrapPcs ==
  {"probe", "reprobe", "getServer", "getConfig", "load", "putApps", "putHttp", "putServers",
   "putServer"}

LockOptionSets ==
  { Options(DomainOption(<<Padded(1)>>), 0, "false", DevServer) }

\* The second process holds the marker and is about to probe; this one starts.
InitLock ==
  /\ fx = IdleFx
  /\ faultsOn = TRUE
  /\ opts \in LockOptionSets
  /\ cfgLevel \in 0..ServerLevel
  /\ tlsLevel = 0
  /\ routes = <<>>
  /\ policies = <<>>
  /\ lockFile = "other"
  /\ sib = [kind |-> "boot", pc |-> "probe"]
  /\ InstanceInit

NextLock ==
  \/ SetupServer \/ EmitListening \/ ListenReturns
  \/ LockOpen \/ Probe \/ Reprobe
  \/ GetServer \/ GetConfig \/ Load \/ PutApps \/ PutHttp \/ PutServers \/ PutServer
  \/ SweepList \/ RmRoute \/ AddRoute
  \/ SibProbe \/ SibReprobe \/ SibScaffold \/ SibRmRoute \/ SibAddRoute

SpecLock == InitLock /\ [][NextLock]_vars

\* ------------------------------------------- the options about the policy

\* internalTls true, false or not given; domain given or not; baseDomain or
\* loopbackDomain given or not.  repo and branch give a name.
TlsOptionSets ==
  { [Options(d, 1, t, DevServer) EXCEPT !.baseSet = b] :
      d \in {NoDomainOption, DomainOption(<<Padded(1)>>)},
      t \in {"unset", "true", "false"}, b \in BOOLEAN }

InitTls ==
  /\ fx = IdleFx
  /\ opts \in TlsOptionSets
  /\ \E d \in {x \in DaemonInits : DaemonInitOk(x)} :
       /\ cfgLevel = d.cfg
       /\ tlsLevel = d.tls
       /\ routes = d.routes
       /\ policies = d.policies
  /\ lockFile = "none"
  /\ faultsOn = TRUE
  /\ sib = NoSibling
  /\ InstanceInit

SpecTls == InitTls /\ [][Next]_vars

\* ------------------------------------ servers, their hosts and their ports

\* Host options a server can bind: none (Vite binds localhost), true (every
\* address), '' and the wildcard addresses, a given address.
BindableHosts ==
  { HostOther("undefined"), HostOther("true"), HostString("", FALSE),
    HostString("0.0.0.0", FALSE), HostString("::", FALSE), HostString("192.168.1.5", FALSE) }

\* Host options as they may be written in a configuration.
HostOptions ==
  BindableHosts \cup { HostString("0.0.0.0", TRUE), HostString("", TRUE),
                       HostString("192.168.1.5", TRUE) }

\* The address a server listening with host option h is bound to.
BoundAddresses(h) ==
  IF ~h.str THEN (IF h.core = "true" THEN {"0.0.0.0", "::"} ELSE {"127.0.0.1", "::1"})
  ELSE IF h.core = "" THEN {"0.0.0.0", "::"}
  ELSE {h.core}

\* The host option the server binds: preview.host in preview mode, when set.
BindHost(pm, h, ph) == IF pm /\ ph # HostAbsent THEN ph ELSE h

\* The port the server asks for first.
RequestedPort(pm, cp, pp) ==
  IF pm THEN (IF pp # NoPort THEN pp ELSE DefaultPreviewPort)
  ELSE (IF cp # NoPort THEN cp ELSE DefaultPort)

\* Vite's local URL of a server bound to address a and port b: localhost for
\* the loopback and the wildcard addresses.
LocalUrl(a, b) ==
  [hostname |-> IF a \in {"0.0.0.0", "::", "127.0.0.1", "::1"} THEN "localhost" ELSE a,
   port |-> b]

Nets ==
  { [port |-> cp, host |-> h, previewMode |-> pm, previewPort |-> pp, previewHost |-> ph,
     bound |-> b, address |-> a, url |-> IF u THEN LocalUrl(a, b) ELSE NoLocalUrl] :
      cp \in {NoPort, FirstPort}, h \in HostOptions, pm \in BOOLEAN,
      pp \in {NoPort, FirstPort},
      ph \in {HostAbsent, HostOther("true"), HostString("0.0.0.0", TRUE),
              HostString("192.168.1.5", FALSE)},
      b \in {NoPort, FirstPort, SecondPort, DefaultPort, DefaultPreviewPort},
      a \in {"", "0.0.0.0", "::", "127.0.0.1", "::1", "192.168.1.5"},
      u \in BOOLEAN }

\* A server with an http server binds its host option and the requested port,
\* or SecondPort when that one is busy; without one nothing is bound.
NetOk(http, n) ==
  /\ ~n.previewMode => n.previewPort = NoPort /\ n.previewHost = HostAbsent
  /\ IF http = "none"
     THEN n.address = "" /\ n.bound = NoPort /\ n.url = NoLocalUrl
     ELSE LET bh == BindHost(n.previewMode, n.host, n.previewHost)
          IN /\ bh \in BindableHosts
             /\ n.address \in BoundAddresses(bh)
             /\ n.bound \in {RequestedPort(n.previewMode, n.port, n.previewPort), SecondPort}

TargetServers ==
  { [http |-> s.http, hasListen |-> s.hasListen, net |-> n] :
      s \in Servers, n \in Nets }

TargetOptionSets ==
  { Options(DomainOption(<<Padded(1)>>), 0, "false", s) :
      s \in {x \in TargetServers : NetOk(x.http, x.net)} }

\* One instance, any server, and a daemon that is running, has the server and
\* answers every request from its configuration.
InitTargets ==
  /\ fx = IdleFx
  /\ faultsOn = FALSE
  /\ opts \in TargetOptionSets
  /\ cfgLevel = ServerLevel
  /\ tlsLevel = 0
  /\ routes = <<>>
  /\ policies = <<>>
  /\ lockFile = "none"
  /\ sib = NoSibling
  /\ InstanceInit

NextTargets ==
  \/ SetupServer \/ EmitListening \/ ListenReturns
  \/ LockOpen \/ Probe \/ GetServer
  \/ SweepList \/ RmRoute \/ AddRoute

SpecTargets == InitTargets /\ [][NextTargets]_vars

\* ------------------------------------------ the sweep and what it finds

\* Routes the daemon may hold when the sweep lists them: one without '@id',
\* one of this plugin for a hostname no option set names, and the one stored
\* under the current route id, besides ForeignRoute and StaleRoute.
NoIdRoute ==
  [id |-> [prefix |-> "", key |-> <<>>, suffix |-> ""], hosts |-> {1},
   dial |-> "127.0.0.1", upstream |-> 0]

DisjointRoute ==
  [id |-> [prefix |-> "vite-proxy-", key |-> getInstanceKey(<<3>>, 9, 0), suffix |-> ""],
   hosts |-> {3}, dial |-> "127.0.0.1", upstream |-> 0]

OwnRoute ==
  [id |-> routeId, hosts |-> Range(domainArray), dial |-> "127.0.0.1", upstream |-> 0]

SweepRoutes == {ForeignRoute, StaleRoute, NoIdRoute, DisjointRoute, OwnRoute}

\* Every list of some of these routes, each at most once.
SweepRouteLists ==
  { l \in UNION { [1..n -> SweepRoutes] : n \in 0..Cardinality(SweepRoutes) } :
      \A i, j \in 1..Len(l) : l[i] = l[j] => i = j }

SweepOptionSets ==
  { Options(d, 0, "false", DevServer) :
      d \in {DomainOption(<<Padded(1)>>), DomainOption(<<Raw(2), Raw(1), Padded(2)>>)} }

\* One instance and a daemon that has the server and any of these routes;
\* requests may fail.
InitSweep ==
  /\ fx = IdleFx
  /\ faultsOn = TRUE
  /\ opts \in SweepOptionSets
  /\ cfgLevel = ServerLevel
  /\ tlsLevel = 0
  /\ routes \in SweepRouteLists
  /\ policies = <<>>
  /\ lockFile = "none"
  /\ sib = NoSibling
  /\ InstanceInit

NextSweep ==
  \/ SetupServer \/ EmitListening \/ ListenReturns
  \/ LockOpen \/ Probe \/ GetServer
  \/ SweepList \/ SweepDelete \/ RmRoute

SpecSweep == InitSweep /\ [][NextSweep]_vars

\* ------------------------------------- several instances in one process

\* The second instance lives in the same process and has registered its
\* signal handlers: an instance created before a restart of the dev server,
\* whose server has closed and whose cleanupRoute has run ("earlier", at
\* "hooked"), or a plugin instance of another hostname that is Active ("peer",
\* at "active", its route in the daemon).
PeerRoute ==
  [id |-> SibRouteId, hosts |-> Range(SibDomainArray), dial |-> "127.0.0.1",
   upstream |-> SecondPort]

\* The process receives SIGINT or SIGTERM while both instances have their
\* handlers registered: the 'SIGINT' / 'SIGTERM' event calls handleSignal of
\* each.  The earlier instance's cleanupRoute returns at its guard, so its
\* .finally(process.kill) runs before any response is handled, with no handler
\* left; the peer starts its own delete sequence.
SignalAll(sig) ==
  /\ alive /\ sig \in listeners /\ ~cleanupStarted
  /\ sib.pc \in {"hooked", "active"}
  /\ listeners' = listeners \ {"SIGINT", "SIGTERM"}
  /\ cleanupStarted' = TRUE
  /\ td' = IF tlsPolicyId # NullId THEN "tls" ELSE "route"
  /\ attempt' = 0
  /\ delayMs' = InitialDelayMs
  /\ IF sib.pc = "hooked"
     THEN /\ sib' = [sib EXCEPT !.pc = "off"]
          /\ alive' = FALSE
          /\ pendingKill' = "none"
          /\ obs' = [obs EXCEPT !.triggers = @ + 1, !.tdStarts = @ + 1,
                                 !.sibAtStart = sib.pc, !.reraised = sig,
                                 !.tdAtReraise = td']
     ELSE /\ sib' = [sib EXCEPT !.pc = "tearing"]
          /\ pendingKill' = sig
          /\ obs' = [obs EXCEPT !.triggers = @ + 1, !.tdStarts = @ + 1,
                                 !.sibAtStart = sib.pc]
          /\ UNCHANGED alive
  /\ UNCHANGED <<fx, opts, faultsOn, run, srvVars, setupVars, daemonVars, lockFile>>

\* The peer's removeWithRetry(removeRoute) returns true: its cleanupRoute
\* settles and its .finally re-raises the signal.
SibTdDelete ==
  /\ alive /\ sib.pc = "tearing"
  /\ routes' = RemoveId(routes, SibRouteId)
  /\ sib' = [sib EXCEPT !.pc = "done"]
  /\ alive' = FALSE
  /\ obs' = [obs EXCEPT !.reraised = pendingKill, !.tdAtReraise = td]
  /\ UNCHANGED <<fx, opts, faultsOn, run, srvVars, setupVars, cleanupStarted, listeners,
                 tdVars, cfgLevel, tlsLevel, policies, lockFile>>

SignalOptionSets == {Options(DomainOption(<<Padded(1)>>), 0, "false", DevServer)}

InitSignals ==
  /\ fx = IdleFx
  /\ faultsOn = TRUE
  /\ opts \in SignalOptionSets
  /\ cfgLevel = ServerLevel
  /\ tlsLevel = 0
  /\ sib \in {[kind |-> "earlier", pc |-> "hooked"], [kind |-> "peer", pc |-> "active"]}
  /\ routes = IF sib.kind = "peer" THEN <<PeerRoute>> ELSE <<>>
  /\ policies = <<>>
  /\ lockFile = "none"
  /\ InstanceInit

NextSignals ==
  \/ SetupServer \/ EmitListening \/ ListenReturns
  \/ LockOpen \/ Probe \/ GetServer
  \/ SweepList \/ RmRoute \/ AddRoute
  \/ SignalAll("SIGINT") \/ SignalAll("SIGTERM")
  \/ TdDelete \/ TdWait \/ SibTdDelete

SpecSignals == InitSignals /\ [][NextSignals]_vars

\* -------------------------------------------- the probe, as a function

\* The outcomes a probe can have: any answer; or an error thrown by fetch or
\* by res.text(), which carries a code itself (a system error, a
\* DOMException) or on its cause (the TypeError of fetch), not on both.
ProbeOutcomes ==
  { Answered(st, b) : st \in {200, 204, 301, 403, 404, 500}, b \in Bodies }
  \cup { Thrown(c, "#absent") : c \in CodeValues }
  \cup { Thrown(c, k) : c \in {"#number", "#absent"}, k \in CodeValues }

NoStatus == [status |-> "", error |-> ""]

InitProbes ==
  /\ fx \in {[phase |-> "in", outcome |-> o, result |-> NoStatus] : o \in ProbeOutcomes}
  /\ opts = Options(DomainOption(<<Raw(1)>>), 0, "unset", DevServer)
  /\ cfgLevel = 0 /\ tlsLevel = 0 /\ routes = <<>> /\ policies = <<>>
  /\ lockFile = "none"
  /\ faultsOn = FALSE
  /\ sib = NoSibling
  /\ InstanceInit

ClassifyProbe ==
  /\ fx.phase = "in"
  /\ fx' = [fx EXCEPT !.phase = "out", !.result = CaddyAdminStatusOf(fx.outcome)]
  /\ UNCHANGED <<opts, faultsOn, sib, run, alive, srvVars, setupVars, cleanupStarted,
                 listeners, tdVars, daemonVars, lockFile, obs>>

NextProbes == ClassifyProbe

SpecProbes == InitProbes /\ [][NextProbes]_vars

\* ------------------------------------------------ ensureCaddyReady alone

\* One process from construction to the end of ensureCaddyReady, with or
\* without a marker that a dead process left behind.  The process is not
\* killed, and every awaited promise (the timers of sleep, the fetches, which
\* are answered or fail) settles, after which Node runs the continuation: weak
\* fairness of the steps.
InitReady ==
  /\ fx = IdleFx
  /\ faultsOn \in BOOLEAN
  /\ opts \in RestartOptionSets(TRUE)
  /\ \E d \in {x \in DaemonInits : DaemonInitOk(x)} :
       /\ cfgLevel = d.cfg
       /\ tlsLevel = d.tls
       /\ routes = d.routes
       /\ policies = d.policies
  /\ lockFile \in {"none", "other"}
  /\ sib = NoSibling
  /\ InstanceInit

NextReady ==
  \/ SetupServer \/ EmitListening \/ ListenReturns
  \/ LockOpen \/ Probe \/ Reprobe
  \/ GetServer \/ GetConfig \/ Load \/ PutApps \/ PutHttp \/ PutServers \/ PutServer
  \/ OtherProcessScaffolds

SpecReady == InitReady /\ [][NextReady]_vars /\ WF_vars(NextReady)

\* ------------------------------------------------- identities, as functions

\* Two plugin instances: their raw `domain` option, process.cwd(), config.root
\* (0 when undefined), and what differs from one start to the next (the port
\* the dev server listens on, the time of the start).  The first instance
\* spells its names in lower case, the second in either way.
IdPlainNames == {Raw(h) : h \in 0..IdNumHosts}

IdRawNames == IdPlainNames \cup {Padded(h) : h \in 1..IdNumHosts}

IdListsOver(names) == UNION { [1..n -> names] : n \in 1..IdMaxLen }

IdInstance(names, cwd, root, start) == [names |-> names, cwd |-> cwd, root |-> root, start |-> start]

IdInputs ==
  { [phase |-> "in", a |-> IdInstance(x, 1, 1, 1), b |-> IdInstance(y, c, r, 2),
     idA |-> NullId, idB |-> NullId, tlsA |-> NullId, tlsB |-> NullId] :
      x \in IdListsOver(IdPlainNames), y \in IdListsOver(IdRawNames),
      c \in {1, 2}, r \in {0, 1} }

\* The instance with the options domain: ['b.localhost', 'a.localhost'] on a
\* daemon holding nothing; it is not started in this specification.
InitIdentity ==
  /\ fx \in IdInputs
  /\ opts = Options(DomainOption(<<Raw(2), Raw(1)>>), 0, "unset", DevServer)
  /\ cfgLevel = 0 /\ tlsLevel = 0 /\ routes = <<>> /\ policies = <<>>
  /\ lockFile = "none"
  /\ faultsOn = FALSE
  /\ sib = NoSibling
  /\ InstanceInit

\* const domainArray = resolvedDomains ?? []; const routeId = ...; const
\* tlsPolicyId = ... of both instances (internalTls follows from `domain`).
ComputeIds ==
  /\ fx.phase = "in"
  /\ LET da == resolveDomains(DomainOption(fx.a.names), 0)
         db == resolveDomains(DomainOption(fx.b.names), 0)
         ia == RouteIdOf(da, fx.a.cwd, fx.a.root)
         ib == RouteIdOf(db, fx.b.cwd, fx.b.root)
         useTls == shouldUseInternalTls("unset", FALSE, DomainOption(fx.a.names))
     IN fx' = [fx EXCEPT !.phase = "out", !.idA = ia, !.idB = ib,
                         !.tlsA = TlsPolicyIdOf(ia, useTls), !.tlsB = TlsPolicyIdOf(ib, useTls)]
  /\ UNCHANGED <<opts, faultsOn, sib, run, alive, srvVars, setupVars, cleanupStarted, listeners,
                 tdVars, daemonVars, lockFile, obs>>

NextIdentity == ComputeIds

SpecIdentity == InitIdentity /\ [][NextIdentity]_vars

\* ================================================================ properties

TeardownEntries == IF tlsPolicyId # NullId THEN {"tls", "route"} ELSE {"route"}

AfterThreeLog(which) == IF which = "tls" THEN "tlsAfter3" ELSE "routeAfter3"

ScaffoldPcs == {"getServer", "getConfig", "load", "putApps", "putHttp", "putServers", "putServer"}

TargetHosts == Range(domainArray)

\* C1: whatever teardown triggers arrive ('close', SIGINT, SIGTERM), the delete
\* sequence is started exactly once: the first trigger starts it, no remover
\* is invoked more than MaxAttempts times, and a later trigger neither starts
\* the sequence again nor issues a delete call.
C1_DeleteSequenceOnce ==
  /\ [](/\ obs.tdStarts <= 1
        /\ (obs.triggers >= 1 => obs.tdStarts = 1)
        /\ (obs.tdStarts = 0 => obs.calls.tls = 0 /\ obs.calls.route = 0)
        /\ obs.calls.tls <= MaxAttempts /\ obs.calls.route <= MaxAttempts)
  /\ [][obs.triggers >= 1 /\ obs'.triggers > obs.triggers
        => /\ obs'.tdStarts = obs.tdStarts /\ obs'.calls = obs.calls
           /\ td' = td /\ attempt' = attempt]_vars

\* C1 witness: 'close' and a signal were both handled, one sequence was started
\* and it issued its route delete.
C1_Witness == obs.triggers = 2 /\ obs.tdStarts = 1 /\ obs.calls.route >= 1

\* C2 as stated: whenever the signal handler re-raises the signal, the delete
\* sequence of the instance is over (finished or ended by an exception).
C2_ReraiseAfterDeleteSequence ==
  obs.reraised # "none" => obs.tdAtReraise \in {"done", "threw"}

\* C3 as stated: once teardown is over, each deletion was attempted until its
\* first success and at most MaxAttempts times, and 'failed after 3 attempts'
\* was logged exactly when all MaxAttempts attempts failed.
C3_RetryUntilFirstSuccess ==
  td \in {"done", "threw"} =>
    \A which \in TeardownEntries :
      /\ obs.calls[which] >= 1 /\ obs.calls[which] <= MaxAttempts
      /\ (obs.okd[which] \/ obs.calls[which] = MaxAttempts)
      /\ (AfterThreeLog(which) \in obs.log <=> (~obs.okd[which] /\ obs.calls[which] = MaxAttempts))

\* C4 as stated: cleanupRoute never ends with an exception, whatever the
\* answers to its delete calls are.
C4_TeardownNeverRaises == td # "threw"

C6_ReconcileTwice ==
  ~faultsOn /\ pc = "active" /\ td = "idle" =>
    /\ CountId(routes, routeId) = 1
    /\ CountId(policies, tlsPolicyId) <= 1
    /\ Len(obs.firstCfg) = 3
    /\ routes = obs.firstCfg[2] /\ policies = obs.firstCfg[3]

\* C6 witness: the second process is Active after the first one had been
\* Active, with its route and its own TLS policy.
C6_Witness ==
  /\ ~faultsOn /\ run = 2 /\ pc = "active" /\ td = "idle"
  /\ Len(obs.firstCfg) = 3 /\ obs.firstCfg[1] = 1
  /\ CountId(policies, tlsPolicyId) = 1

C8_OverlapIsNotAFailure ==
  obs.overlap =>
    /\ "addTlsPolicy" \notin obs.log
    /\ tlsPolicyAdded
    /\ pc \in {"addRoute", "active", "rollback", "failed", "threw"}
    /\ (pc = "failed" => "addRoute" \in obs.log)
    /\ (pc = "threw" => obs.unhandled)
    /\ (pc = "active" => CountId(routes, routeId) >= 1 \/ td # "idle")

\* C8 witness: the overlap was answered and the instance is Active with its route.
C8_Witness ==
  obs.overlap /\ pc = "active" /\ td = "idle" /\ CountId(routes, routeId) = 1

\* C9: with no hostname resolved, setupServer logs the error and returns: no
\* admin API request, no `caddy start`, no handler on the server or the
\* process, no setup and no teardown, whatever happens to the server later.
C9_NoDomainStops ==
  Len(domainArray) = 0 /\ pc # "new" =>
    /\ pc = "noDomain" /\ "noDomain" \in obs.log
    /\ ~obs.api /\ ~obs.launched
    /\ listeners = {}
    /\ ~setupStarted /\ ~cleanupStarted /\ td = "idle"

\* C9 witness: no hostname, and the server has since started listening and
\* been closed.
C9_Witness == pc = "noDomain" /\ httpServer = "closed"

\* C10: after a first probe that failed to connect and a re-probe that was
\* answered ok, `caddy start` was executed, startCaddy has returned, and
\* ensureCaddyReady fails only if a scaffold request is refused; otherwise the
\* server scaffold exists once ensureBaseConfig is over and setupRoute is past
\* the readiness step, registering the route.
C10_RecoveryPath ==
  obs.firstProbe = "connectivity-error" /\ obs.reachable =>
    /\ obs.launched
    /\ pc # "reprobe"
    /\ obs.cause \in {"", "scaffold"}
    /\ (obs.cause = "" => "baseSettings" \notin obs.log)
    /\ (obs.cause = "" /\ pc \notin ScaffoldPcs => cfgLevel = ServerLevel /\ ~holdsLock)

\* C10 witness: the recovery path was taken and the instance is Active.
C10_Witness ==
  /\ obs.firstProbe = "connectivity-error" /\ obs.reachable
  /\ pc = "active" /\ CountId(routes, routeId) = 1

\* C11: a probe that meets an API error makes ensureCaddyReady fail at once:
\* after the first probe no daemon is launched, and in startCaddy's loop no
\* further probe follows the one that was answered with an API error.
C11_ApiErrorStopsReadiness ==
  /\ obs.lastProbe = "api-error"
       => pc = "failed" /\ obs.cause \in {"probe", "reprobe"}
  /\ obs.firstProbe = "api-error"
       => ~obs.launched /\ obs.cause = "probe" /\ obs.lastProbe = "api-error"

C11_Witness ==
  /\ obs.lastProbe = "api-error" /\ obs.cause = "reprobe"
  /\ obs.launched /\ probeI >= 1 /\ pc = "failed"

\* C12: once ensureCaddyReady has thrown (the base-settings error is logged),
\* setupRoute is over for good: no stale sweep, no delete and no create follows,
\* no policy was added, no teardown hook is registered, no teardown runs and
\* the setup is not started again; the daemon's configuration is not changed
\* by any later step of the instance.
C12_ReadinessFailureAborts ==
  /\ []("baseSettings" \in obs.log =>
          /\ pc = "failed" /\ setupStarted
          /\ ~tlsPolicyAdded /\ sweepTodo = <<>>
          /\ listeners \cap {"close", "SIGINT", "SIGTERM"} = {}
          /\ ~cleanupStarted /\ td = "idle")
  /\ [][("baseSettings" \in obs.log) =>
           UNCHANGED <<pc, setupStarted, td, routes, policies, cfgLevel, tlsLevel>>]_vars

\* C12 witness: readiness failed because the daemon never answered the
\* re-probes, and the server has since been closed.
C12_Witness ==
  /\ "baseSettings" \in obs.log /\ obs.cause = "notStarted"
  /\ httpServer = "closed"

\* C13: when the route create failed after this run added its TLS policy, the
\* policy delete was issued before the error was logged, and with that delete
\* answered ok neither a route under routeId nor a policy under tlsPolicyId is
\* in the daemon; no teardown hook is registered.
C13_RollbackLeavesNothing ==
  "addRoute" \in obs.log /\ tlsPolicyAdded =>
    /\ obs.rollback # "none"
    /\ listeners \cap {"close", "SIGINT", "SIGTERM"} = {}
    /\ obs.rollback = "ok" =>
         CountId(routes, routeId) = 0 /\ CountId(policies, tlsPolicyId) = 0

C15_EnsureReadyEnds ==
  /\ [](polls * LockPollMs <= LockTimeoutMs /\ probeI <= StartProbes)
  /\ (pc = "lock") ~> (pc \in {"failed", "sweepList"})

\* C15 witness: the marker of a dead process is still there, the process
\* waited the 5000 ms out, launched the daemon, probed ten times in vain and
\* ensureCaddyReady has thrown.
C15_Witness ==
  /\ lockFile = "other" /\ polls * LockPollMs = LockTimeoutMs
  /\ probeI = StartProbes /\ obs.cause = "notStarted" /\ pc = "failed"

\* C16: when the read of the server is answered ok (the server exists),
\* ensureBaseConfig returns on that step, so it has issued one read and
\* nothing else, and the daemon's configuration is as it was; and a creation
\* step that is answered 409 does not make ensureBaseConfig throw and changes
\* nothing in the daemon.
C16_ExistingServerReadOnly ==
  /\ [][pc = "getServer" /\ obs'.serverRead = "ok" =>
           /\ pc' = "sweepList"
           /\ UNCHANGED <<cfgLevel, tlsLevel, routes, policies>>]_vars
  /\ [][obs'.conflicts > obs.conflicts =>
           /\ pc' \in {"putHttp", "putServers", "putServer", "sweepList"}
           /\ UNCHANGED <<cfgLevel, tlsLevel, routes, policies>>]_vars

\* C16 witness: ensureBaseConfig has returned after two creation steps or
\* more were answered 409.
C16_Witness == pc = "sweepList" /\ obs.conflicts >= 2 /\ cfgLevel = ServerLevel

\* C17: an origin rejection is never retried: a readiness probe answered with
\* one ends ensureCaddyReady as an API error, with no `caddy start` caused by
\* it, and a teardown delete answered with one is not issued again.
C17_OriginRejectionNotRetried ==
  /\ obs.originProbe =>
       /\ pc = "failed" /\ obs.lastProbe = "api-error"
       /\ obs.launched => obs.firstProbe = "connectivity-error"
  /\ obs.originDelete # "again"

\* The addresses an instance of SiblingOptionSets may be configured with.
ConfiguredAddresses ==
  {DefaultCaddyApiUrl, [origin |-> "http://localhost:2020", tail |-> ""]}

OthersEntries(list) == SelectSeq(list, LAMBDA e : e.id \notin {routeId, tlsPolicyId})

\* The daemon holds the route, and the policy when one is requested, that
\* the second instance created.
SiblingServed ==
  /\ \E i \in 1..Len(routes) :
       routes[i].id = SibRouteId /\ routes[i].upstream = SecondPort
  /\ SibTlsPolicyId # NullId => HasId(policies, SibTlsPolicyId)

C20_StoppedLeavesNothing ==
  /\ ~faultsOn /\ run = 1
  /\ (alive /\ httpServer = "closed") \/ obs.reraised # "none"
  /\ pc \in {"active", "failed", "noDomain", "threw"}
  /\ td \in {"idle", "done", "threw"}
  => /\ CountId(routes, routeId) = 0
     /\ tlsPolicyId # NullId => CountId(policies, tlsPolicyId) = 0

C22_AbsentTargetIsSuccess ==
  /\ [](td = "done" => obs.calls.route = 1 /\ obs.calls.tls <= 1
                       /\ obs.log \cap {"tlsAfter3", "routeAfter3"} = {})
  /\ [][ /\ (/\ td \in {"tls", "route"}
             /\ obs'.calls[td] = obs.calls[td] + 1
             /\ ~HasId(IF td = "tls" THEN policies ELSE routes,
                       IF td = "tls" THEN tlsPolicyId ELSE routeId))
            => /\ ~obs'.removerLogged
               /\ obs'.okd[td]
               /\ obs'.calls[td] = 1
               /\ obs'.log = obs.log
               /\ td' = IF td = "tls" THEN "route" ELSE "done"
         /\ (pc = "rmRoute" /\ pc' # pc /\ ~HasId(routes, routeId))
            => /\ ~obs'.removerLogged
               /\ obs'.log = obs.log
               /\ pc' \in {"rmTls", "addRoute"}
         /\ (pc = "rmTls" /\ pc' # pc /\ ~HasId(policies, tlsPolicyId))
            => /\ ~obs'.removerLogged
               /\ obs'.log = obs.log
               /\ pc' = "tlsGet" ]_vars

\* C22 witness: the teardown is over, the route it was to delete had already
\* been deleted by the other instance; one call, no message.
C22_Witness ==
  /\ td = "done" /\ sib.kind = "same"
  /\ obs.sibAtStart \in {"rmTls", "addTls", "addRoute"}
  /\ sib.pc \in {"rmTls", "addTls", "addRoute"}
  /\ obs.calls.route = 1 /\ obs.okd.route /\ ~obs.removerLogged

\* The route this instance registered, if the daemon holds it.
OwnRoutes == {i \in 1..Len(routes) : routes[i].id = routeId}

\* C23: the dial host of the registered route is never a wildcard address or
\* empty; when the server is bound to '0.0.0.0' or '::', or has no bound
\* address and its host option is a wildcard address, blank, or not a
\* string, the dial host is '127.0.0.1'.
C23_DialHostNeverWildcard ==
  \A i \in OwnRoutes :
    LET n == opts.server.net
        bh == BindHost(n.previewMode, n.host, n.previewHost)
    IN /\ routes[i].dial \notin {"0.0.0.0", "::", "", NoHost}
       /\ (\/ n.address \in {"0.0.0.0", "::"}
           \/ /\ opts.server.http = "none"
              /\ (~bh.str \/ bh.core \in {"0.0.0.0", "::", ""}))
          => routes[i].dial = "127.0.0.1"

\* C23 witness: a server bound to every address by host '0.0.0.0', no URL
\* resolved, and its route registered.
C23_Witness ==
  /\ OwnRoutes # {}
  /\ opts.server.net.host = HostString("0.0.0.0", FALSE)
  /\ ~opts.server.net.previewMode
  /\ opts.server.net.address = "0.0.0.0"
  /\ opts.server.net.url = NoLocalUrl

\* C24: with no resolved URL, the upstream port of the registered route is
\* the port of the address the server is bound to, also when that is not the
\* configured port, and whether setupRoute was started by the 'listening'
\* event or by the return of the wrapped listen().
C24_UpstreamIsBoundPort ==
  \A i \in OwnRoutes :
    (opts.server.http # "none" /\ opts.server.net.url = NoLocalUrl)
      => routes[i].upstream = opts.server.net.bound

\* C24 witness: configured FirstPort, bound SecondPort, no URL; the route is
\* registered before the wrapped listen() has returned.
C24_Witness ==
  /\ OwnRoutes # {}
  /\ opts.server.hasListen /\ ~listenDone
  /\ ~opts.server.net.previewMode
  /\ opts.server.net.port = FirstPort /\ opts.server.net.bound = SecondPort
  /\ opts.server.net.url = NoLocalUrl

\* Positions of setupRoute and cleanupRoute at which a request about the
\* TLS policy is in flight or about to be repeated.
TlsPolicyPcs == {"rmTls", "tlsGet", "tlsPutAutomation", "tlsPutTls", "tlsPost", "rollback"}

\* The options ask for a TLS policy.
TlsPolicyRequested ==
  \/ opts.internalTls = "true"
  \/ opts.internalTls = "unset" /\ (opts.domain.given \/ opts.baseSet)

\* C25: a reconciliation that gets as far as the route has dealt with the TLS
\* policy exactly when internalTls is true, or is not given while domain,
\* baseDomain or loopbackDomain is; when the policy is not asked for, no
\* request about it is ever issued, in reconciliation or in teardown, and no
\* step of the instance takes a policy away or adds one.
C25_TlsPolicyExactlyWhenRequested ==
  /\ [](/\ pc \in {"addRoute", "active"} => (tlsPolicyAdded <=> TlsPolicyRequested)
        /\ ~TlsPolicyRequested =>
             /\ pc \notin TlsPolicyPcs
             /\ td \notin {"tls", "tlsWait"}
             /\ obs.calls.tls = 0 /\ ~obs.okd.tls
             /\ ~tlsPolicyAdded)
  /\ [][~TlsPolicyRequested /\ pc \notin {"load"} => policies' = policies]_vars

\* C25 witness: internalTls not given, no domain, baseDomain given; the
\* policy was added and the teardown has deleted it.
C25_Witness ==
  /\ opts.internalTls = "unset" /\ ~opts.domain.given /\ opts.baseSet
  /\ td = "done" /\ obs.okd.tls /\ tlsPolicyAdded

\* C26: while the second process holds the marker and is inside its
\* bootstrap sequence, this process is not inside the sequence, and the two
\* have not both run the launch command.
C26_BootstrapExclusive ==
  (sib.kind = "boot" /\ sib.pc \in {"probe", "reprobe", "scaffold"} /\ lockFile = "other")
    => /\ pc \notin BootstrapPcs
       /\ ~(obs.launched /\ sib.pc = "reprobe")

\* C27: once the second process has created the server and its instance its
\* route, the scaffold creation of this process leaves both in the daemon.
C27_ScaffoldKeepsOthers ==
  (sib.kind = "boot" /\ sib.pc = "active")
    => cfgLevel = ServerLevel /\ HasId(routes, SibRouteId)

\* C28: two instances with the same RouteID have both finished their
\* reconciliation and neither has started its teardown: the daemon holds
\* exactly one route with the RouteID and at most one policy with RouteID-tls.
C28_OneRoutePerSharedId ==
  (sib.kind = "same" /\ sib.pc = "active" /\ pc = "active" /\ td = "idle")
    => /\ CountId(routes, routeId) = 1
       /\ tlsPolicyId # NullId => CountId(policies, tlsPolicyId) <= 1

\* C29: the route of a second instance that has another RouteID, and is
\* Active, is in the daemon whatever this instance does (stale sweep,
\* replace, rollback, teardown), also when the two serve the same hostnames.
C29_RouteDeletedByOwnerOnly ==
  (sib.kind \in {"other", "overlap"} /\ sib.pc = "active") => HasId(routes, SibRouteId)

\* The state of the instance, read off setupRoute's and cleanupRoute's
\* positions.  An instance whose setupServer returned for want of a domain
\* has started nothing and stays Idle.
PhaseOf(p, t) ==
  IF t \in {"done", "threw"} THEN "Done"
  ELSE IF t # "idle" THEN "Tearing-Down"
  ELSE IF p \in {"new", "waiting", "noDomain"} THEN "Idle"
  ELSE IF p = "active" THEN "Active"
  ELSE IF p \in {"failed", "threw"} THEN "Done"
  ELSE "Registering"

\* C30: the instance moves only Idle -> Registering -> Active -> Tearing-Down
\* -> Done, or Registering -> Done when the registration fails (in one step
\* from Idle when the registration fails as it starts); the registration
\* is started once, from Idle; the hooks for close, SIGINT and SIGTERM exist
\* only after it succeeded; a failed registration stays failed; the teardown
\* runs on a registered instance only.
C30_StateMachine ==
  /\ [](/\ listeners \cap {"close", "SIGINT", "SIGTERM"} # {} => pc = "active"
        /\ td # "idle" => pc = "active"
        /\ PhaseOf(pc, td) # "Idle" => setupStarted)
  /\ [][/\ PhaseOf(pc', td') # PhaseOf(pc, td) =>
             \/ <<PhaseOf(pc, td), PhaseOf(pc', td')>> \in
                  { <<"Idle", "Registering">>, <<"Registering", "Active">>,
                    <<"Active", "Tearing-Down">>, <<"Tearing-Down", "Done">>,
                    <<"Registering", "Done">> }
             \/ /\ PhaseOf(pc, td) = "Idle" /\ PhaseOf(pc', td') = "Done"
                /\ ~setupStarted /\ setupStarted' /\ "notInstalled" \in obs'.log
        /\ (~setupStarted /\ setupStarted') => PhaseOf(pc, td) = "Idle"
        /\ setupStarted => setupStarted'
        /\ pc \in {"failed", "threw"} => pc' = pc]_vars

\* C30 witness: 'listening' was emitted and the wrapped listen() returned, the
\* route was registered, the server closed and the teardown is over.
C30_Witness ==
  /\ PhaseOf(pc, td) = "Done" /\ pc = "active"
  /\ listenDone /\ httpServer = "closed" /\ obs.okd.route

\* The server of the instance listens: its http server has emitted
\* 'listening', or, there being none, its listen() has returned.
ServerIsListening ==
  \/ httpServer \in {"listening", "closed"}
  \/ httpServer = "none" /\ listenDone

\* C31: for a server that has an http server or a listen() method, setupRoute
\* is not started, no admin API request is issued and no route is created
\* before the server listens; whichever of 'listening' and the return of the
\* wrapped listen() comes first, the route is created at most once, and
\* setupRoute, once past the route create, is never at it again.
C31_NothingBeforeListening ==
  /\ []((opts.server.http # "none" \/ opts.server.hasListen) =>
          ((setupStarted \/ obs.api \/ HasId(routes, routeId)) => ServerIsListening))
  /\ [](CountId(routes, routeId) <= 1)
  /\ [][(pc \in {"active", "rollback", "failed", "threw"})
          => (pc' \in {"active", "rollback", "failed", "threw"})]_vars

\* C31 witness: 'listening' came first and started the registration, the
\* wrapped listen() returned later, and the route is there once.
C31_Witness ==
  /\ opts.server.http = "idle" /\ opts.server.hasListen
  /\ listenDone /\ pc = "active" /\ td = "idle"
  /\ CountId(routes, routeId) = 1

\* C32: in one reconciliation the stale sweep starts when readiness has
\* returned, the delete of the route follows the sweep, the delete of the
\* policy follows the delete of the route, the policy create follows the
\* delete of the policy, and the route create follows the policy create when
\* a policy is requested (which then has returned), else the delete of the
\* route.
C32_ReconcileOrder ==
  /\ [](pc = "addRoute" /\ TlsPolicyRequested => tlsPolicyAdded)
  /\ [][pc' # pc =>
          /\ pc' = "sweepList" => pc \in {"getServer", "load", "putServer"}
          /\ pc' = "sweepDelete" => pc = "sweepList"
          /\ pc' = "rmRoute" => pc \in {"sweepList", "sweepDelete"}
          /\ pc' = "rmTls" => pc = "rmRoute" /\ TlsPolicyRequested
          /\ pc' = "tlsGet" => pc = "rmTls"
          /\ pc' \in {"tlsPutAutomation", "tlsPutTls", "tlsPost"} =>
               pc \in {"tlsGet", "tlsPutAutomation", "tlsPutTls"}
          /\ pc' = "addRoute" => pc = (IF TlsPolicyRequested THEN "tlsPost" ELSE "rmRoute")
          /\ pc' \in {"active", "rollback"} => pc = "addRoute"]_vars

\* C32 witness: a reconciliation with a policy requested has registered the
\* policy and the route.
C32_Witness ==
  /\ pc = "active" /\ td = "idle" /\ TlsPolicyRequested /\ tlsPolicyAdded
  /\ HasId(policies, tlsPolicyId) /\ HasId(routes, routeId)

\* C33: in teardown with a TLS policy identity, every delete call for the TLS
\* policy is made before the first delete call for the route, and the route
\* delete is started only when the policy delete returned true or was called
\* MaxAttempts times.
C33_PolicyBeforeRoute ==
  /\ [](tlsPolicyId # NullId =>
          /\ (td \in {"tls", "tlsWait"} => obs.calls.route = 0)
          /\ (td \in {"route", "routeWait", "done"} \/ obs.calls.route > 0 =>
                obs.okd.tls \/ obs.calls.tls = MaxAttempts))
  /\ [][tlsPolicyId # NullId /\ obs'.calls.tls > obs.calls.tls =>
          obs.calls.route = 0 /\ obs'.calls.route = 0]_vars

C33_Witness ==
  /\ tlsPolicyId # NullId /\ td = "route" /\ obs.calls.route = 1
  /\ ~obs.okd.tls /\ obs.calls.tls = MaxAttempts

\* C34: every failure during reconciliation is caught and logged and ends the
\* registration: setupRoute never rejects, and it does not go on to the next
\* step after a delete whose remover logged a failure.
C34_FailuresEndRegistration ==
  /\ pc # "threw"
  /\ (pc \in {"rmTls", "addRoute", "active"} => ~obs.removerLogged)

\* The routes of `before` that are still in `after`, in their order.
KeptOf(before, after) ==
  SelectSeq(before, LAMBDA x : \E j \in 1..Len(after) : after[j] = x)

\* C35: a step of the stale sweep removes a route only when its '@id' starts
\* with 'vite-proxy-', is not the current route id and its hosts intersect the
\* target hostnames; every other route stays as it is, in place; and the sweep
\* issues a delete only after the route list was read ok and parsed as a list.
C35_SweepDeletesOnlyStale ==
  /\ [](pc = "sweepDelete" => obs.listRead = "list")
  /\ [](pc = "rmRoute" /\ obs.listRead \in {"notOk", "notList"} => obs.swept = 0)
  /\ [][(pc \in {"sweepList", "sweepDelete"}) /\ (pc' # pc \/ sweepTodo' # sweepTodo) =>
          /\ routes' = KeptOf(routes, routes')
          /\ (pc = "sweepList" => routes' = routes)
          /\ \A i \in 1..Len(routes) :
                (\A j \in 1..Len(routes') : routes'[j] # routes[i]) =>
                   /\ routes[i].id.prefix = "vite-proxy-"
                   /\ routes[i].id # routeId
                   /\ routes[i].hosts \cap Range(domainArray) # {}]_vars

C35_Witness ==
  /\ pc = "rmRoute" /\ obs.listRead = "list" /\ obs.swept = 1
  /\ Len(routes) = 4 /\ ~HasId(routes, StaleRoute.id)
  /\ \A x \in SweepRoutes \ {StaleRoute} : HasId(routes, x.id)

\* C36: removeWithRetry waits only between two remover calls on the same
\* entry, 100 ms after the 1st failed call and 200 ms after the 2nd; it does
\* not wait before the 1st call, after a call that returned true or after the
\* 3rd call, so the waits of one entry add up to at most 300 ms.
C36_WaitsDouble ==
  /\ [](td \in {"tlsWait", "routeWait"} =>
          /\ attempt \in 1..(MaxAttempts - 1)
          /\ delayMs = (IF attempt = 1 THEN 100 ELSE 200)
          /\ obs.calls[IF td = "tlsWait" THEN "tls" ELSE "route"] = attempt
          /\ ~obs.okd[IF td = "tlsWait" THEN "tls" ELSE "route"])
  /\ [](td \in {"tls", "route"} =>
          /\ attempt = obs.calls[td]
          /\ delayMs - InitialDelayMs = (CASE attempt = 0 -> 0 [] attempt = 1 -> 100
                                            [] OTHER -> 300))
  /\ [][td' # td =>
          /\ td' = "tlsWait" => td = "tls"
          /\ td' = "routeWait" => td = "route"
          /\ td = "tlsWait" => td' = "tls"
          /\ td = "routeWait" => td' = "route"]_vars

C36_Witness ==
  /\ td = "done" /\ attempt = 2 /\ delayMs = 400 /\ obs.calls.route = MaxAttempts
  /\ ~obs.okd.route

\* C37: when execSync('caddy start') throws, startCaddy still runs its loop of
\* re-probes: the readiness step fails for want of a daemon only after
\* StartProbes re-probes none of which was answered as running (or on a re-probe
\* answered with an API error), and it goes on to the base configuration as
\* soon as a re-probe is answered as running.
C37_LaunchFailureIsSwallowed ==
  /\ [](obs.launchFailed =>
          /\ obs.cause # "launch"
          /\ (pc = "reprobe" => ~obs.reachable /\ probeI < StartProbes)
          /\ (pc = "failed" /\ obs.cause = "notStarted" =>
                ~obs.reachable /\ probeI = StartProbes)
          /\ (pc = "failed" /\ obs.cause = "reprobe" =>
                ~obs.reachable /\ obs.lastProbe = "api-error"))
  /\ [][obs'.launchFailed /\ ~obs.launchFailed => pc' = "reprobe" /\ probeI' = 0]_vars
  /\ [][obs.launchFailed /\ pc = "reprobe" /\ obs'.reachable =>
          pc' \in {"getServer", "getConfig"}]_vars

C37_Witness ==
  /\ obs.launchFailed /\ obs.reachable /\ probeI = StartProbes - 1
  /\ pc = "sweepList" /\ obs.firstProbe = "connectivity-error"

\* C38: with several instances' handlers registered in one process, the
\* signal is re-raised only when the delete sequence of every instance that
\* was Active or Tearing-Down is over.
C38_ReraiseAfterEveryCleanup ==
  obs.reraised # "none" => obs.tdAtReraise \in {"done", "threw"} /\ sib.pc # "tearing"

\* The TLS policies of this plugin ('vite-proxy-' identity) that claim one of
\* the target hostnames.
PoliciesClaimingTarget ==
  {policies[i].id : i \in {j \in 1..Len(policies) :
                             /\ policies[j].id.prefix = "vite-proxy-"
                             /\ policies[j].subjects \cap Range(domainArray) # {}}}

\* C39: once the reconciliation has succeeded with a TLS policy requested, no
\* policy of this plugin other than the one under tlsPolicyId claims a target
\* hostname, and once the teardown has deleted both entries none claims it.
C39_NoOrphanedPolicy ==
  /\ (pc = "active" /\ tlsPolicyId # NullId => PoliciesClaimingTarget \subseteq {tlsPolicyId})
  /\ (td = "done" /\ obs.okd.tls /\ obs.okd.route => PoliciesClaimingTarget = {})

\* C40: the route is appended only when no entry is left under the same route
\* id: an Active instance never has two routes under routeId, the new one
\* behind the one whose delete failed.
C40_NoRouteBehindSurvivor ==
  pc = "active" /\ td = "idle" => CountId(routes, routeId) <= 1

====
